---- MODULE Spec2Model ----
(***************************************************************************)
(* Verification model of bevy_procedural_gen: the ChunkTracker membership  *)
(* oracle, the square-grid (CubicVoxelLayout / CubeLayout) and hex-grid    *)
(* (CubeHexLayout) coordinate algebra.                                     *)
(*                                                                         *)
(* Several specifications share the module:                                *)
(*   Spec        the ChunkTracker driven by arbitrary try_spawn and        *)
(*               try_despawn calls                                         *)
(*   SquareSpec  the square-grid layout functions applied to bounded       *)
(*               inputs                                                    *)
(*   HexSpec     a constructed CubeHexLayout and its functions applied to  *)
(*               bounded inputs                                            *)
(*   SquareVoxelSpec  a constructed CubicVoxelLayout and its voxel and     *)
(*               space conversions applied to bounded inputs               *)
(*   HexVoxelSpec  a constructed CubeHexLayout with a chunk height and its *)
(*               get_chunk_voxels applied to the chunks of bounded voxels  *)
(*   CoordSpec   + and - of both CubeHexCoord types on bounded operands    *)
(*   ConstructSpec  either layout built with any radius, also zero and     *)
(*               negative ones, and voxel_to_chunk applied to it           *)
(*   StreamSpec  the chunk streaming systems of the voxel terrain plugin   *)
(*               over moving sites, tick by tick                           *)
(***************************************************************************)
EXTENDS Integers, Sequences, FiniteSets

(***************************************************************************)
(* Bounds of the model.                                                    *)
(***************************************************************************)
MaxTrackerCoord == 1     \* tracker ids are the pairs over 0..MaxTrackerCoord
MaxCalls == 6            \* number of tracker calls in one behaviour
MaxSquareCoord == 2      \* square chunks are drawn from -MaxSquareCoord..MaxSquareCoord
MaxSquareDistance == 3   \* largest neighbourhood distance asked of the square grid
MaxRadius == 2           \* hex layouts are built with chunk radius 1..MaxRadius
MaxTileCoord == 6        \* hex tiles have x and z in -MaxTileCoord..MaxTileCoord
MaxHexDistance == 3      \* largest neighbourhood distance asked of the hex grid
MaxRingNum == 2          \* longest walk over neighbouring hex chunks
MaxSquareOrigin == 1     \* square layout origins are the pairs over -MaxSquareOrigin..MaxSquareOrigin
MaxSquareRadius == 2     \* square layouts have chunk_voxel_length 1..MaxSquareRadius
MaxSquareHeight == 2     \* square layouts have chunk_voxel_height 0..MaxSquareHeight
MaxVoxelCoord == 5       \* square voxels have x and z in -MaxVoxelCoord..MaxVoxelCoord
MaxVoxelY == 2           \* square voxels have y in -MaxVoxelY..MaxVoxelY
SpaceDenom == 2          \* a space coordinate s stands for the f32 value s / SpaceDenom
MaxHexHeight == 2        \* hex layouts have chunk_voxel_height 0..MaxHexHeight
FracDenom == 4           \* a fractional hex coordinate n stands for the f32 value n / FracDenom
MaxFrac == 10            \* fractional hex coordinates have n in -MaxFrac..MaxFrac
MaxOperand == 1          \* operands of + and - have x and z in -MaxOperand..MaxOperand
MaxBadRadius == 1        \* layouts are also built with the radii -MaxBadRadius..0
MaxSites == 2            \* the world holds 1..MaxSites chunk spawners
MaxSitePos == 1          \* sites stand on the centres of the chunks (x, x), x in 0..MaxSitePos
MaxTicks == 3            \* ticks of the streaming schedule
MaxPipelineTicks == 4    \* ticks of the schedule while the pool finishes tasks
MaxTerrainTicks == 2     \* ticks of the schedule of TerrainPlugin
DeltaDenom == 2          \* time.delta_seconds n stands for the f32 value n / DeltaDenom
FarChunk == 500          \* sites also stand on the centre of the chunk (FarChunk, 0)

VARIABLES
  \* ---- ChunkTracker ----
  tracker_impl,    \* which ChunkTracker of the repository is exercised
  loaded_chunks,   \* ChunkTracker.loaded_chunks
  op,              \* the call that produced the current state
  arg,             \* the chunk id passed to that call
  retval,          \* the boolean the call returned
  prev_loaded,     \* loaded_chunks as it was when that call started
  spawn_true,      \* per id: number of try_spawn calls that returned true
  despawn_true,    \* per id: number of try_despawn calls that returned true
  calls,           \* number of calls made so far
  \* ---- square grid ----
  sq_impl,         \* which square layout of the repository is exercised
  sq_op,           \* the function that produced the current state
  sq_chunk,        \* the chunk the functions are applied to
  sq_distance,     \* the distance argument
  sq_neighbors,    \* result of get_chunk_neighbors(sq_chunk, sq_distance)
  sq_neighbor,     \* the element of sq_neighbors picked by the mutuality check
  sq_ns,           \* result of get_chunk_neighbors(sq_neighbor, sq_distance)
  \* ---- square grid: the fields of CubicVoxelLayout ----
  sq_origin,           \* CubicVoxelLayout.origin
  chunk_voxel_length,  \* CubicVoxelLayout.chunk_voxel_length
  chunk_voxel_height,  \* CubicVoxelLayout.chunk_voxel_height
  \* ---- square grid: voxel and space conversions ----
  sq_voxel,        \* the voxel the conversion is applied to
  sq_voxels,       \* result of get_chunk_voxels(sq_chunk)
  sq_resolved,     \* voxel_to_chunk of each of sq_voxels, in order
  sq_space,        \* the Vec3 produced on the way, in units of 1 / SpaceDenom
  sq_result,       \* the chunk or voxel the round trip returned
  \* ---- hex grid: the fields of CubeHexLayout the functions read ----
  chunk_voxel_radius,
  chunk_voxel_period,
  chunk_lookup,    \* Vec<CubeHexCoord>, indexed from 0
  \* ---- hex grid: function applications ----
  hex_op,          \* the function that produced the current state
  hex_start,       \* how hex_chunk was obtained: "default" or "voxel"
  hex_ring_num,    \* number of neighbour steps walked from the default chunk
  hex_voxel,       \* the voxel last passed to voxel_to_chunk
  hex_chunk,       \* the chunk the functions are applied to
  hex_distance,    \* the distance argument
  hex_neighbors,   \* result of get_chunk_neighbors(hex_chunk, hex_distance)
  hex_neighbor,    \* the element of hex_neighbors picked by the mutuality check
  hex_ns,          \* result of get_chunk_neighbors(hex_neighbor, hex_distance)
  hex_tiles,       \* the tiles enumerated for hex_chunk
  hex_resolved,    \* voxel_to_chunk of each of hex_tiles, in order
  \* ---- hex grid: chunk voxels and fractional coordinates ----
  hex_chunk_voxel_height,  \* CubeHexLayout.chunk_voxel_height
  hex_voxels,      \* result of get_chunk_voxels(hex_chunk)
  hex_frac,        \* the (x, z) given to from_fractional_xz, in units of 1 / FracDenom
  hex_coord,       \* result of from_fractional_xz
  \* ---- CubeHexCoord arithmetic ----
  coord_impl,      \* "hex_layout" (src/hex_layout.rs) or "terrain_hex" (src/terrain/hex.rs)
  coord_op,        \* "new", "add" or "sub"
  coord_a,         \* left operand
  coord_b,         \* right operand
  coord_result,    \* a + b or a - b
  \* ---- chunk streaming: crates/gen_terrain/src/voxel/mod.rs ----
  sites,           \* the (Transform, ChunkSpawner) entities, in query order
  chunks,          \* the live Chunk entities
  commands,        \* the Commands queued during the tick, applied at its end
  pending_systems, \* the systems that have not yet run in the current tick
  ticks,           \* number of completed ticks
  spawn_log,       \* history: what the last spawn_chunks did for each site
  entity_commands, \* the Commands on live entities queued during the tick, per system
  distance_log,    \* history: the sites and chunks before this tick's calc_chunk_distances
  despawn_log,     \* history: the tracker and chunks before this tick's despawn_chunks
  stream_impl,     \* "gen_terrain" (mod.rs), "terrain" (src/terrain.rs) or "terrain_old"
  despawn_timer,   \* ChunkTracker::despawn_timer of src/terrain.rs; <<>> where there is none
  min_despawn_distance \* ChunkTracker::min_despawn_distance of src/terrain.rs

trackerVars == <<tracker_impl, loaded_chunks, op, arg, retval, prev_loaded,
                 spawn_true, despawn_true, calls>>

squareVars == <<sq_impl, sq_op, sq_chunk, sq_distance, sq_neighbors,
                sq_neighbor, sq_ns>>

squareLayoutVars == <<sq_origin, chunk_voxel_length, chunk_voxel_height>>

squareVoxelVars == <<squareLayoutVars, sq_voxel, sq_voxels, sq_resolved,
                     sq_space, sq_result>>

hexLayoutVars == <<chunk_voxel_radius, chunk_voxel_period, chunk_lookup>>

hexVars == <<hexLayoutVars, hex_op, hex_start, hex_ring_num, hex_voxel,
             hex_chunk, hex_distance, hex_neighbors, hex_neighbor, hex_ns,
             hex_tiles, hex_resolved>>

hexVoxelVars == <<hex_chunk_voxel_height, hex_voxels, hex_frac, hex_coord>>

coordVars == <<coord_impl, coord_op, coord_a, coord_b, coord_result>>

streamVars == <<sites, chunks, commands, pending_systems, ticks, spawn_log,
                entity_commands, distance_log, despawn_log, stream_impl,
                despawn_timer, min_despawn_distance>>

vars == <<trackerVars, squareVars, squareVoxelVars, hexVars, hexVoxelVars,
          coordVars, streamVars>>

(***************************************************************************)
(* Helpers: iterator combinators and Rust integer arithmetic.              *)
(***************************************************************************)
\* Concatenation of a sequence of sequences, in order.
RECURSIVE Flatten(_)
Flatten(ss) == IF ss = <<>> THEN <<>> ELSE Head(ss) \o Flatten(Tail(ss))

\* (lo..=hi).flat_map(F).collect(); empty when hi < lo
FlatMapRange(lo, hi, F(_)) == Flatten([i \in 1..(hi - lo + 1) |-> F(lo + i - 1)])

\* seq.iter().map(F).collect()
MapSeq(seq, F(_)) == [i \in 1..Len(seq) |-> F(seq[i])]

\* seq.into_iter().filter(|n| *n == e).count()
Count(seq, e) == Cardinality({i \in 1..Len(seq) : seq[i] = e})

SeqToSet(seq) == {seq[i] : i \in 1..Len(seq)}

Abs(n) == IF n < 0 THEN 0 - n ELSE n

Max(a, b) == IF a > b THEN a ELSE b

\* i64::div_euclid for a divisor other than 0: the quotient q with
\* a = q * b + r and 0 <= r < |b|.
DivEuclid(a, b) == IF b > 0 THEN a \div b ELSE 0 - (a \div (0 - b))

\* `f as i64` for the f32 value s / SpaceDenom: truncation toward zero.
AsInt(s) == IF s >= 0 THEN s \div SpaceDenom ELSE 0 - ((0 - s) \div SpaceDenom)

\* `n as f32` for an integer small enough to be exact in f32.
AsF32(n) == n * SpaceDenom

\* Rust's % on signed integers: the remainder takes the sign of the dividend.
RemT(a, b) == IF a >= 0 THEN a % b ELSE 0 - ((0 - a) % b)

(***************************************************************************)
(* ChunkTracker                                                            *)
(***************************************************************************)
TrackerIds == (0..MaxTrackerCoord) \X (0..MaxTrackerCoord)

TrackerImpls == {"gen_terrain", "terrain"}

\* A call's outcome: the new loaded set and the returned boolean.
Outcome(set, b) == [loaded_chunks |-> set, retval |-> b]

\* What a try_spawn that forgets the membership test would do.
try_spawn_always_true(loaded, chunk) ==
  Outcome(loaded \cup {chunk}, TRUE)

\* crates/gen_terrain/src/voxel/tracker.rs, ChunkTracker::try_spawn
try_spawn(loaded, chunk) ==
  IF chunk \notin loaded
    THEN Outcome(loaded \cup {chunk}, TRUE)
    ELSE Outcome(loaded, FALSE)

\* src/terrain.rs, ChunkTracker::try_spawn
terrain_try_spawn(loaded, chunk) ==
  IF chunk \notin loaded
    THEN Outcome(loaded \cup {chunk}, TRUE)
    ELSE Outcome(loaded, FALSE)

\* What a try_despawn that clears the whole set would do.
try_despawn_clears(loaded, chunk) ==
  Outcome({}, chunk \in loaded)

\* crates/gen_terrain/src/voxel/tracker.rs, ChunkTracker::try_despawn
\* (HashSet::remove returns whether the value was present)
try_despawn(loaded, chunk) ==
  LET retval_ == chunk \in loaded
  IN  Outcome(loaded \ {chunk}, retval_)

\* What a try_despawn that reports success unconditionally would do.
terrain_try_despawn_always_true(loaded, chunk) ==
  Outcome(loaded \ {chunk}, TRUE)

\* src/terrain.rs, ChunkTracker::try_despawn
terrain_try_despawn(loaded, chunk) ==
  Outcome(loaded \ {chunk}, chunk \in loaded)

TrackerInit ==
  /\ tracker_impl \in TrackerImpls
  /\ loaded_chunks = {}
  /\ op = "new"
  /\ arg = <<0, 0>>
  /\ retval = FALSE
  /\ prev_loaded = {}
  /\ spawn_true = [id \in TrackerIds |-> 0]
  /\ despawn_true = [id \in TrackerIds |-> 0]
  /\ calls = 0

TrySpawn(chunk) ==
  /\ calls < MaxCalls
  /\ LET r == IF tracker_impl = "gen_terrain"
                THEN try_spawn(loaded_chunks, chunk)
                ELSE terrain_try_spawn(loaded_chunks, chunk)
     IN  /\ loaded_chunks' = r.loaded_chunks
         /\ retval' = r.retval
         /\ spawn_true' = IF r.retval
                            THEN [spawn_true EXCEPT ![chunk] = @ + 1]
                            ELSE spawn_true
  /\ op' = "try_spawn"
  /\ arg' = chunk
  /\ prev_loaded' = loaded_chunks
  /\ calls' = calls + 1
  /\ UNCHANGED <<tracker_impl, despawn_true>>

TryDespawn(chunk) ==
  /\ calls < MaxCalls
  /\ LET r == IF tracker_impl = "gen_terrain"
                THEN try_despawn(loaded_chunks, chunk)
                ELSE terrain_try_despawn(loaded_chunks, chunk)
     IN  /\ loaded_chunks' = r.loaded_chunks
         /\ retval' = r.retval
         /\ despawn_true' = IF r.retval
                              THEN [despawn_true EXCEPT ![chunk] = @ + 1]
                              ELSE despawn_true
  /\ op' = "try_despawn"
  /\ arg' = chunk
  /\ prev_loaded' = loaded_chunks
  /\ calls' = calls + 1
  /\ UNCHANGED <<tracker_impl, spawn_true>>

TrackerNext ==
  \/ \E chunk \in TrackerIds : TrySpawn(chunk)
  \/ \E chunk \in TrackerIds : TryDespawn(chunk)

\* The tracker is at rest in the specifications of the layouts.
TrackerIdle ==
  /\ tracker_impl = "gen_terrain"
  /\ loaded_chunks = {}
  /\ op = "new"
  /\ arg = <<0, 0>>
  /\ retval = FALSE
  /\ prev_loaded = {}
  /\ spawn_true = [id \in TrackerIds |-> 0]
  /\ despawn_true = [id \in TrackerIds |-> 0]
  /\ calls = 0

(***************************************************************************)
(* Square grid: CubicVoxelLayout (crates/gen_terrain) and CubeLayout (src) *)
(***************************************************************************)
SquareImpls == {"CubicVoxelLayout", "CubeLayout"}

\* Mat2::mul_vec2 of a column-major matrix <<c0.x, c0.y, c1.x, c1.y>>.
\* The vectors hold ring offsets, integers of magnitude at most the distance,
\* which f32 represents exactly; the cast back to an integer truncates an
\* integral value and so returns it.
mul_vec2(m, v) == <<m[1] * v[1] + m[3] * v[2], m[2] * v[1] + m[4] * v[2]>>

\* impl Add for ChunkId / ChunkCoord
ChunkId_add(a, b) == <<a[1] + b[1], a[2] + b[2]>>

\* A rotation table whose last entry repeats the first instead of the identity.
ROTATE_4X_no_identity ==
  << <<0, 1, -1, 0>>, <<-1, 0, 0, -1>>, <<0, -1, 1, 0>>, <<0, 1, -1, 0>> >>

\* crates/gen_terrain/src/voxel/layout.rs, ROTATE_4X
ROTATE_4X ==
  << <<0, 1, -1, 0>>, <<-1, 0, 0, -1>>, <<0, -1, 1, 0>>, <<1, 0, 0, 1>> >>

\* src/cube_layout.rs, ROTATE_4X
CubeLayout_ROTATE_4X ==
  << <<0, 1, -1, 0>>, <<-1, 0, 0, -1>>, <<0, -1, 1, 0>>, <<1, 0, 0, 1>> >>

\* An edge walk that also emits the far corner: offsets 0..=2*ring.
CubicVoxelLayout_get_chunk_neighbors_closed_edge(chunk, distance) ==
  FlatMapRange(1, distance, LAMBDA ring :
    FlatMapRange(0, 2 * ring, LAMBDA offset :
      MapSeq(MapSeq(ROTATE_4X,
                    LAMBDA rot : mul_vec2(rot, <<(0 - ring) + offset, 0 - ring>>)),
             LAMBDA v2 : ChunkId_add(chunk, <<v2[1], v2[2]>>))))

\* crates/gen_terrain/src/voxel/layout.rs, CubicVoxelLayout::get_chunk_neighbors
CubicVoxelLayout_get_chunk_neighbors(chunk, distance) ==
  FlatMapRange(1, distance, LAMBDA ring :
    FlatMapRange(0, 2 * ring - 1, LAMBDA offset :
      MapSeq(MapSeq(ROTATE_4X,
                    LAMBDA rot : mul_vec2(rot, <<(0 - ring) + offset, 0 - ring>>)),
             LAMBDA v2 : ChunkId_add(chunk, <<v2[1], v2[2]>>))))

\* src/cube_layout.rs, CubeLayout::get_chunk_neighbors
CubeLayout_get_chunk_neighbors(chunk, distance) ==
  FlatMapRange(1, distance, LAMBDA ring :
    FlatMapRange(0, 2 * ring - 1, LAMBDA offset :
      MapSeq(MapSeq(CubeLayout_ROTATE_4X,
                    LAMBDA rot : mul_vec2(rot, <<(0 - ring) + offset, 0 - ring>>)),
             LAMBDA v2 : ChunkId_add(chunk, <<v2[1], v2[2]>>))))

Square_get_chunk_neighbors(chunk, distance) ==
  IF sq_impl = "CubicVoxelLayout"
    THEN CubicVoxelLayout_get_chunk_neighbors(chunk, distance)
    ELSE CubeLayout_get_chunk_neighbors(chunk, distance)

SquareChunks ==
  (0 - MaxSquareCoord .. MaxSquareCoord) \X (0 - MaxSquareCoord .. MaxSquareCoord)

SquareInit ==
  /\ sq_impl \in SquareImpls
  /\ sq_op = "new"
  /\ sq_chunk \in SquareChunks
  /\ sq_distance \in 1..MaxSquareDistance
  /\ sq_neighbors = <<>>
  /\ sq_neighbor = <<0, 0>>
  /\ sq_ns = <<>>

SquareIdle ==
  /\ sq_impl = "CubicVoxelLayout"
  /\ sq_op = "new"
  /\ sq_chunk = <<0, 0>>
  /\ sq_distance = 1
  /\ sq_neighbors = <<>>
  /\ sq_neighbor = <<0, 0>>
  /\ sq_ns = <<>>

\* let neighbors = layout.get_chunk_neighbors(&chunk, distance)
SquareGetChunkNeighbors ==
  /\ sq_op = "new"
  /\ sq_op' = "get_chunk_neighbors"
  /\ sq_neighbors' = Square_get_chunk_neighbors(sq_chunk, sq_distance)
  /\ UNCHANGED <<sq_impl, sq_chunk, sq_distance, sq_neighbor, sq_ns>>

\* for neighbor in neighbors { let ns = layout.get_chunk_neighbors(&neighbor, distance) }
SquareNeighborsOfNeighbor(i) ==
  /\ sq_op = "get_chunk_neighbors"
  /\ i \in 1..Len(sq_neighbors)
  /\ sq_op' = "neighbors_of_neighbor"
  /\ sq_neighbor' = sq_neighbors[i]
  /\ sq_ns' = Square_get_chunk_neighbors(sq_neighbors[i], sq_distance)
  /\ UNCHANGED <<sq_impl, sq_chunk, sq_distance, sq_neighbors>>

SquareNext ==
  \/ SquareGetChunkNeighbors
  \/ \E i \in 1..Len(sq_neighbors) : SquareNeighborsOfNeighbor(i)

(***************************************************************************)
(* Square grid: voxels and space, crates/gen_terrain/src/voxel/layout.rs   *)
(* A VoxelId is <<x, y, z>>, a Vec3 <<x, y, z>> in units of 1/SpaceDenom.  *)
(***************************************************************************)
\* The tests build every layout with voxel_side_length 1.0.
voxel_side_length == 1

chunk_voxel_full_length == 1 + (chunk_voxel_length * 2)

get_center_voxel(chunk) ==
  <<chunk[1] * chunk_voxel_full_length, 0, chunk[2] * chunk_voxel_full_length>>

get_voxel(chunk, x, y, z) ==
  LET vx == x + (chunk[1] * chunk_voxel_full_length)
      vz == z + (chunk[2] * chunk_voxel_full_length)
  IN  <<vx, y, vz>>

\* impl Add for VoxelId
VoxelId_add(a, b) == <<a[1] + b[1], a[2] + b[2], a[3] + b[3]>>

\* impl Sub for VoxelId
VoxelId_sub(a, b) == <<a[1] - b[1], a[2] - b[2], a[3] - b[3]>>

\* CubicVoxelLayout::get_chunk_voxels
CubicVoxelLayout_get_chunk_voxels(chunk) ==
  FlatMapRange(0, chunk_voxel_full_length - 1, LAMBDA x :
    FlatMapRange(0, chunk_voxel_full_length - 1, LAMBDA z :
      FlatMapRange(0, chunk_voxel_height - 1, LAMBDA y :
        <<get_voxel(chunk, x - chunk_voxel_length, y, z - chunk_voxel_length)>>)))

\* A voxel_to_chunk that divides without first shifting by the half-length.
CubicVoxelLayout_voxel_to_chunk_no_shift(voxel) ==
  LET x == DivEuclid(voxel[1], chunk_voxel_full_length)
      y == DivEuclid(voxel[3], chunk_voxel_full_length)
  IN  <<x, y>>

\* A voxel_to_chunk that uses the truncating / instead of div_euclid.
CubicVoxelLayout_voxel_to_chunk_truncating(voxel) ==
  LET trunc(a, b) == IF a >= 0 THEN a \div b ELSE 0 - ((0 - a) \div b)
      x == trunc(voxel[1] + chunk_voxel_length, chunk_voxel_full_length)
      y == trunc(voxel[3] + chunk_voxel_length, chunk_voxel_full_length)
  IN  <<x, y>>

\* CubicVoxelLayout::voxel_to_chunk
CubicVoxelLayout_voxel_to_chunk(voxel) ==
  LET x == DivEuclid(voxel[1] + chunk_voxel_length, chunk_voxel_full_length)
      y == DivEuclid(voxel[3] + chunk_voxel_length, chunk_voxel_full_length)
  IN  <<x, y>>

\* CubicVoxelLayout::voxel_to_space
CubicVoxelLayout_voxel_to_space(voxel) ==
  LET center == get_center_voxel(sq_origin)
      transposed == VoxelId_sub(voxel, center)
      x == AsF32(transposed[1]) * voxel_side_length
      y == AsF32(transposed[2]) * voxel_side_length
      z == AsF32(transposed[3]) * voxel_side_length
  IN  <<x, y, z>>

\* CubicVoxelLayout::chunk_to_space
CubicVoxelLayout_chunk_to_space(chunk) ==
  CubicVoxelLayout_voxel_to_space(get_center_voxel(chunk))

\* The div_euclid calls of space_to_voxel panic when a divisor is 0.
space_to_voxel_panics ==
  \/ AsInt(AsF32(voxel_side_length)) = 0
  \/ chunk_voxel_height = 0

\* CubicVoxelLayout::space_to_voxel, when it does not panic
CubicVoxelLayout_space_to_voxel(space) ==
  LET center == get_center_voxel(sq_origin)
      divisor == AsInt(AsF32(voxel_side_length))
      x == DivEuclid(AsInt(space[1]), divisor)
      y == DivEuclid(AsInt(space[2]), chunk_voxel_height)
      z == DivEuclid(AsInt(space[3]), divisor)
  IN  VoxelId_add(<<x, y, z>>, center)

\* CubicVoxelLayout::space_to_chunk, when space_to_voxel does not panic
CubicVoxelLayout_space_to_chunk(space) ==
  CubicVoxelLayout_voxel_to_chunk(CubicVoxelLayout_space_to_voxel(space))

SquareOrigins ==
  (0 - MaxSquareOrigin .. MaxSquareOrigin) \X (0 - MaxSquareOrigin .. MaxSquareOrigin)

SquareVoxelCoords == (0 - MaxVoxelCoord)..MaxVoxelCoord

\* CubicVoxelLayout::new
CubicVoxelLayoutNew(origin, length, height) ==
  /\ sq_origin = origin
  /\ chunk_voxel_length = length
  /\ chunk_voxel_height = height

SquareVoxelAtRest ==
  /\ sq_voxel = <<0, 0, 0>>
  /\ sq_voxels = <<>>
  /\ sq_resolved = <<>>
  /\ sq_space = <<0, 0, 0>>
  /\ sq_result = <<>>

\* CubicVoxelLayout::default
SquareVoxelIdle ==
  /\ CubicVoxelLayoutNew(<<0, 0>>, 11, 10)
  /\ SquareVoxelAtRest

SquareVoxelInit ==
  /\ \E origin \in SquareOrigins, length \in 1..MaxSquareRadius,
        height \in 0..MaxSquareHeight :
          CubicVoxelLayoutNew(origin, length, height)
  /\ SquareVoxelAtRest
  /\ SquareIdle

\* let chunk = layout.voxel_to_chunk(&VoxelId(x2, 0, z2))
SquareVoxelToChunk(x, z) ==
  /\ sq_op = "new"
  /\ sq_op' = "voxel_to_chunk"
  /\ sq_voxel' = <<x, 0, z>>
  /\ sq_chunk' = CubicVoxelLayout_voxel_to_chunk(<<x, 0, z>>)
  /\ UNCHANGED <<sq_impl, sq_distance, sq_neighbors, sq_neighbor, sq_ns,
                 squareLayoutVars, sq_voxels, sq_resolved, sq_space, sq_result>>

\* for voxel in layout.get_chunk_voxels(&chunk) { layout.voxel_to_chunk(&voxel) }
SquareResolveChunkVoxels(chunk) ==
  /\ sq_op = "new"
  /\ sq_op' = "get_chunk_voxels"
  /\ sq_chunk' = chunk
  /\ LET voxels == CubicVoxelLayout_get_chunk_voxels(chunk)
     IN  /\ sq_voxels' = voxels
         /\ sq_resolved' = MapSeq(voxels, CubicVoxelLayout_voxel_to_chunk)
  /\ UNCHANGED <<sq_impl, sq_distance, sq_neighbors, sq_neighbor, sq_ns,
                 squareLayoutVars, sq_voxel, sq_space, sq_result>>

\* layout.space_to_chunk(&layout.chunk_to_space(&chunk)); sq_op records a
\* panic of the second call, which leaves no result.
SquareChunkRoundTrip(chunk) ==
  /\ sq_op = "new"
  /\ sq_chunk' = chunk
  /\ sq_space' = CubicVoxelLayout_chunk_to_space(chunk)
  /\ IF space_to_voxel_panics
       THEN /\ sq_op' = "space_to_chunk panicked"
            /\ sq_result' = <<>>
       ELSE /\ sq_op' = "space_to_chunk"
            /\ sq_result' =
                 CubicVoxelLayout_space_to_chunk(CubicVoxelLayout_chunk_to_space(chunk))
  /\ UNCHANGED <<sq_impl, sq_distance, sq_neighbors, sq_neighbor, sq_ns,
                 squareLayoutVars, sq_voxel, sq_voxels, sq_resolved>>

\* layout.space_to_voxel(&layout.voxel_to_space(&voxel))
SquareVoxelRoundTrip(voxel) ==
  /\ sq_op = "new"
  /\ sq_voxel' = voxel
  /\ sq_space' = CubicVoxelLayout_voxel_to_space(voxel)
  /\ IF space_to_voxel_panics
       THEN /\ sq_op' = "space_to_voxel panicked"
            /\ sq_result' = <<>>
       ELSE /\ sq_op' = "space_to_voxel"
            /\ sq_result' =
                 CubicVoxelLayout_space_to_voxel(CubicVoxelLayout_voxel_to_space(voxel))
  /\ UNCHANGED <<sq_impl, sq_chunk, sq_distance, sq_neighbors, sq_neighbor,
                 sq_ns, squareLayoutVars, sq_voxels, sq_resolved>>

SquareVoxelNext ==
  \/ \E x \in SquareVoxelCoords, z \in SquareVoxelCoords : SquareVoxelToChunk(x, z)
  \/ \E chunk \in SquareChunks : SquareResolveChunkVoxels(chunk)
  \/ \E chunk \in SquareChunks \cup {sq_origin} : SquareChunkRoundTrip(chunk)
  \/ \E x \in SquareVoxelCoords, y \in (0 - MaxVoxelY)..MaxVoxelY,
        z \in SquareVoxelCoords : SquareVoxelRoundTrip(<<x, y, z>>)

(***************************************************************************)
(* Hex grid: src/hex_layout.rs                                             *)
(* A CubeHexCoord is <<x, y, z>>, an ExtrudedCubeHexCoord <<x, y, z, h>>.  *)
(***************************************************************************)
from_axis_coord(q, r) == <<q, r, 0 - (q + r)>>

from_xz(x, z) == <<x, 0 - (x + z), z>>

from_xzh(x, z, h) == <<x, (0 - x) - z, z, h>>

from_hex2d(hex, height) == <<hex[1], hex[2], hex[3], height>>

get_base(voxel) == <<voxel[1], voxel[2], voxel[3]>>

\* The operands are non-negative, so the truncating / is the floor division.
distance_step(a, b) ==
  (Abs(a[1] - b[1]) + Abs(a[2] - b[2]) + Abs(a[3] - b[3])) \div 2

CubeHexCoord_add(a, b) == <<a[1] + b[1], a[2] + b[2], a[3] + b[3]>>

\* impl Sub for CubeHexCoord (src/hex_layout.rs)
CubeHexCoord_sub(a, b) == <<a[1] - b[1], a[2] - b[2], a[3] - b[3]>>

\* impl Add for CubeHexCoord (src/terrain/hex.rs): the third component adds
\* self.2 to itself.
terrain_hex_CubeHexCoord_add(a, b) == <<a[1] + b[1], a[2] + b[2], a[3] + a[3]>>

\* Six rotations that never flip the sign: m is always 1.
Rotate6_no_flip(center, indexes) ==
  [k \in 1..6 |->
     LET rot == k - 1
         xi == (0 + rot) % 3
         yi == (1 + rot) % 3
     IN  CubeHexCoord_add(center,
           from_axis_coord(indexes[xi + 1], indexes[yi + 1]))]

\* The six rotations shared by get_ring and get_chunk_neighbors: rot counts
\* from 0, indexes is the 0-based array written here from 1.
Rotate6(center, indexes) ==
  [k \in 1..6 |->
     LET rot == k - 1
         m == IF rot % 2 = 1 THEN 0 - 1 ELSE 1
         xi == (0 + rot) % 3
         yi == (1 + rot) % 3
     IN  CubeHexCoord_add(center,
           from_axis_coord(indexes[xi + 1] * m, indexes[yi + 1] * m))]

get_ring(center, distance) ==
  FlatMapRange(1, distance, LAMBDA i :
    Rotate6(center, <<i, distance - i, 0 - distance>>))

\* The state of the loop of build_lookup at the start of one phase.
LookupLoopStart(radius) ==
  [section_start |-> radius, upper |-> radius * 2, lower |-> radius + 1,
   is_lower |-> TRUE]

\* A table construction whose lower edge segments subtract radius - 1
\* instead of radius + 1 from the inner offset, shifting them two tiles in x.
RECURSIVE build_lookup_phase_late_edge(_, _, _, _, _, _)
build_lookup_phase_late_edge(radius, period, phase, offset, st, lookup) ==
  LET half_period == (period - 1) \div 2
      key == IF phase = 1 THEN offset ELSE period - offset
  IN  IF offset > half_period THEN lookup
      ELSE IF offset <= radius
        THEN build_lookup_phase_late_edge(radius, period, phase, offset + 1, st,
               [lookup EXCEPT ![key] = from_xz(offset * phase, 0)])
        ELSE
          LET inner_max == IF st.is_lower THEN st.lower ELSE st.upper
              inner_offset == offset - st.section_start
              x_offset == IF st.is_lower THEN radius - 1 ELSE inner_max - radius
              z_phase == IF st.is_lower THEN 1 ELSE 0 - 1
              entry == from_xz((inner_offset - x_offset) * phase,
                               ((radius + radius + 1) - inner_max) * phase * z_phase)
              st2 == IF inner_offset + 1 > inner_max
                       THEN [section_start |-> offset,
                             upper |-> IF st.is_lower THEN st.upper ELSE st.upper - 1,
                             lower |-> IF st.is_lower THEN st.lower + 1 ELSE st.lower,
                             is_lower |-> ~st.is_lower]
                       ELSE st
          IN  build_lookup_phase_late_edge(radius, period, phase, offset + 1, st2,
                [lookup EXCEPT ![key] = entry])

\* The iterations offset..=half_period of one phase of build_lookup; st holds
\* the loop's mutable locals and lookup the table written so far.
RECURSIVE build_lookup_phase(_, _, _, _, _, _)
build_lookup_phase(radius, period, phase, offset, st, lookup) ==
  LET half_period == (period - 1) \div 2
      key == IF phase = 1 THEN offset ELSE period - offset
  IN  IF offset > half_period THEN lookup
      ELSE IF offset <= radius
        THEN build_lookup_phase(radius, period, phase, offset + 1, st,
               [lookup EXCEPT ![key] = from_xz(offset * phase, 0)])
        ELSE
          LET inner_max == IF st.is_lower THEN st.lower ELSE st.upper
              inner_offset == offset - st.section_start
              x_offset == IF st.is_lower THEN radius + 1 ELSE inner_max - radius
              z_phase == IF st.is_lower THEN 1 ELSE 0 - 1
              entry == from_xz((inner_offset - x_offset) * phase,
                               ((radius + radius + 1) - inner_max) * phase * z_phase)
              st2 == IF inner_offset + 1 > inner_max
                       THEN [section_start |-> offset,
                             upper |-> IF st.is_lower THEN st.upper ELSE st.upper - 1,
                             lower |-> IF st.is_lower THEN st.lower + 1 ELSE st.lower,
                             is_lower |-> ~st.is_lower]
                       ELSE st
          IN  build_lookup_phase(radius, period, phase, offset + 1, st2,
                [lookup EXCEPT ![key] = entry])

\* A table construction that runs the loop for phase 1 only.
build_lookup_positive_phase(chunk_voxel_radius_) ==
  LET radius == chunk_voxel_radius_
      offset_base == 3 * radius + 1
      period == (3 * radius * radius) + offset_base
      blank == [k \in 0..period |-> <<0, 0, 0>>]
      first == build_lookup_phase(radius, period, 1, 0, LookupLoopStart(radius), blank)
  IN  <<period, first>>

\* CubeHexLayout::build_lookup: <<period, chunk_lookup>>
build_lookup(chunk_voxel_radius_) ==
  LET radius == chunk_voxel_radius_
      offset_base == 3 * radius + 1
      period == (3 * radius * radius) + offset_base
      blank == [k \in 0..period |-> <<0, 0, 0>>]
      first == build_lookup_phase(radius, period, 1, 0, LookupLoopStart(radius), blank)
      second == build_lookup_phase(radius, period, 0 - 1, 0, LookupLoopStart(radius), first)
  IN  <<period, second>>

\* A tile-to-chunk resolution that mirrors a negative key instead of wrapping it.
voxel_to_chunk_mirrored_key(voxel) ==
  LET radius == chunk_voxel_radius
      offset_base == 3 * radius + 1
      x_offset_based_on_z == RemT(voxel[3] * offset_base, chunk_voxel_period)
      x_transposed_axis == x_offset_based_on_z - voxel[1]
      x_closest == RemT(x_transposed_axis, chunk_voxel_period)
      x_upper == IF x_closest < 0 THEN 0 - x_closest ELSE x_closest
  IN  CubeHexCoord_add(get_base(voxel), chunk_lookup[x_upper])

\* voxel_to_chunk's x_closest: the transposed axis reduced with Rust's %,
\* which keeps the sign of the dividend.
x_closest(voxel) ==
  LET radius == chunk_voxel_radius
      offset_base == 3 * radius + 1
      x_offset_based_on_z == RemT(voxel[3] * offset_base, chunk_voxel_period)
      x_transposed_axis == x_offset_based_on_z - voxel[1]
  IN  RemT(x_transposed_axis, chunk_voxel_period)

\* A key that wraps a negative remainder by the table's length, period + 1.
x_upper_wrapped_by_len(voxel) ==
  IF x_closest(voxel) < 0
    THEN x_closest(voxel) + chunk_voxel_period + 1
    ELSE x_closest(voxel)

\* voxel_to_chunk's x_upper: the index into chunk_lookup
x_upper(voxel) ==
  IF x_closest(voxel) < 0
    THEN x_closest(voxel) + chunk_voxel_period
    ELSE x_closest(voxel)

\* The keys build_lookup writes: one per phase and offset in 0..=half_period.
assigned_keys(radius) ==
  LET period == (3 * radius * radius) + (3 * radius + 1)
      half_period == (period - 1) \div 2
  IN  {IF phase = 1 THEN offset ELSE period - offset :
         phase \in {1, 0 - 1}, offset \in 0..half_period}

\* CubeHexLayout::voxel_to_chunk
voxel_to_chunk(voxel) ==
  CubeHexCoord_add(get_base(voxel), chunk_lookup[x_upper(voxel)])

\* A neighbour walk whose edges also emit their far corner: i in 0..=ring.
Hex_get_chunk_neighbors_closed_edge(chunk, distance) ==
  LET radius == chunk_voxel_radius
      inc == 2 * radius + 1
  IN  FlatMapRange(1, distance, LAMBDA ring :
        LET anchor == <<(0 - ring) * inc, radius * ring + ring, radius * ring>>
        IN  FlatMapRange(0, ring, LAMBDA i :
              Rotate6(chunk, <<anchor[1] + (i * radius),
                               anchor[2] - (i * inc),
                               (anchor[3] + (i * inc)) - (i * radius)>>)))

\* A neighbour walk that stops one ring short of the requested distance.
Hex_get_chunk_neighbors_short(chunk, distance) ==
  LET radius == chunk_voxel_radius
      inc == 2 * radius + 1
  IN  FlatMapRange(1, distance - 1, LAMBDA ring :
        LET anchor == <<(0 - ring) * inc, radius * ring + ring, radius * ring>>
        IN  FlatMapRange(0, ring - 1, LAMBDA i :
              Rotate6(chunk, <<anchor[1] + (i * radius),
                               anchor[2] - (i * inc),
                               (anchor[3] + (i * inc)) - (i * radius)>>)))

\* A neighbour walk that steps by 2 * radius, the diameter less the centre.
Hex_get_chunk_neighbors_even_inc(chunk, distance) ==
  LET radius == chunk_voxel_radius
      inc == 2 * radius
  IN  FlatMapRange(1, distance, LAMBDA ring :
        LET anchor == <<(0 - ring) * inc, radius * ring + ring, radius * ring>>
        IN  FlatMapRange(0, ring - 1, LAMBDA i :
              Rotate6(chunk, <<anchor[1] + (i * radius),
                               anchor[2] - (i * inc),
                               (anchor[3] + (i * inc)) - (i * radius)>>)))

\* CubeHexLayout::get_chunk_neighbors
Hex_get_chunk_neighbors(chunk, distance) ==
  LET radius == chunk_voxel_radius
      inc == 2 * radius + 1
  IN  FlatMapRange(1, distance, LAMBDA ring :
        LET anchor == <<(0 - ring) * inc, radius * ring + ring, radius * ring>>
        IN  FlatMapRange(0, ring - 1, LAMBDA i :
              Rotate6(chunk, <<anchor[1] + (i * radius),
                               anchor[2] - (i * inc),
                               (anchor[3] + (i * inc)) - (i * radius)>>)))

\* CubeHexLayout::chunk_voxel_diameter
chunk_voxel_diameter == (chunk_voxel_radius * 2) + 1

\* CubeHexLayout::get_chunk_distance; the operands of / are non-negative.
Hex_get_chunk_distance(a, b) == distance_step(a, b) \div chunk_voxel_diameter

\* The ring whose pass of get_chunk_neighbors emitted the k-th chunk: ring r
\* emits r edge positions rotated 6 times, so rings 1..r emit 3r(r + 1).
ring_of(k) == CHOOSE r \in 1..k : 3 * (r - 1) * r < k /\ k <= 3 * r * (r + 1)

\* CubeHexLayout::new, for the fields the functions above read
HexLayoutNew(chunk_radius) ==
  LET built == build_lookup(chunk_radius)
  IN  /\ chunk_voxel_radius = chunk_radius
      /\ chunk_voxel_period = built[1]
      /\ chunk_lookup = built[2]

HexTileCoords == (0 - MaxTileCoord)..MaxTileCoord

HexAtRest ==
  /\ hex_op = "new"
  /\ hex_start = "default"
  /\ hex_ring_num = 0
  /\ hex_voxel = <<0, 0, 0, 0>>
  /\ hex_chunk = <<0, 0, 0>>
  /\ hex_distance = 0
  /\ hex_neighbors = <<>>
  /\ hex_neighbor = <<0, 0, 0>>
  /\ hex_ns = <<>>
  /\ hex_tiles = <<>>
  /\ hex_resolved = <<>>

HexInit ==
  /\ \E chunk_radius \in 1..MaxRadius : HexLayoutNew(chunk_radius)
  /\ HexAtRest

HexIdle ==
  /\ HexLayoutNew(1)
  /\ HexAtRest

\* let chunk = layout.voxel_to_chunk(&ExtrudedCubeHexCoord::from_xzh(x, z, 0))
HexVoxelToChunk(x, z) ==
  /\ hex_op = "new"
  /\ hex_op' = "voxel_to_chunk"
  /\ hex_start' = "voxel"
  /\ hex_voxel' = from_xzh(x, z, 0)
  /\ hex_chunk' = voxel_to_chunk(from_xzh(x, z, 0))
  /\ UNCHANGED <<hexLayoutVars, hex_ring_num, hex_distance, hex_neighbors,
                 hex_neighbor, hex_ns, hex_tiles, hex_resolved>>

\* let mut n = layout.get_chunk_neighbors(chunk, 1).collect();
\* chunk = n.remove(index % n.len())
HexWalk(index) ==
  /\ hex_op \in {"new", "walk"}
  /\ hex_start = "default"
  /\ hex_ring_num < MaxRingNum
  /\ LET n == Hex_get_chunk_neighbors(hex_chunk, 1)
     IN  /\ Len(n) > 0
         /\ hex_chunk' = n[(index % Len(n)) + 1]
  /\ hex_op' = "walk"
  /\ hex_ring_num' = hex_ring_num + 1
  /\ UNCHANGED <<hexLayoutVars, hex_start, hex_voxel, hex_distance,
                 hex_neighbors, hex_neighbor, hex_ns, hex_tiles, hex_resolved>>

\* let neighbors = layout.get_chunk_neighbors(chunk, distance)
HexGetChunkNeighbors(distance) ==
  /\ hex_op \in {"new", "voxel_to_chunk", "walk"}
  /\ hex_op' = "get_chunk_neighbors"
  /\ hex_distance' = distance
  /\ hex_neighbors' = Hex_get_chunk_neighbors(hex_chunk, distance)
  /\ UNCHANGED <<hexLayoutVars, hex_start, hex_ring_num, hex_voxel, hex_chunk,
                 hex_neighbor, hex_ns, hex_tiles, hex_resolved>>

\* for neighbor in neighbors { let ns = layout.get_chunk_neighbors(neighbor, distance) }
HexNeighborsOfNeighbor(i) ==
  /\ hex_op = "get_chunk_neighbors"
  /\ i \in 1..Len(hex_neighbors)
  /\ hex_op' = "neighbors_of_neighbor"
  /\ hex_neighbor' = hex_neighbors[i]
  /\ hex_ns' = Hex_get_chunk_neighbors(hex_neighbors[i], hex_distance)
  /\ UNCHANGED <<hexLayoutVars, hex_start, hex_ring_num, hex_voxel, hex_chunk,
                 hex_distance, hex_neighbors, hex_tiles, hex_resolved>>

\* The centre of the chunk and, for ring in 1..=radius, the tiles of
\* get_ring(chunk, ring), each resolved with voxel_to_chunk at height 0.
HexResolveChunkTiles ==
  /\ hex_op \in {"new", "voxel_to_chunk", "walk"}
  /\ hex_op' = "resolve_chunk_tiles"
  /\ LET tiles == <<hex_chunk>> \o
                  FlatMapRange(1, chunk_voxel_radius,
                               LAMBDA ring : get_ring(hex_chunk, ring))
     IN  /\ hex_tiles' = tiles
         /\ hex_resolved' = MapSeq(tiles, LAMBDA voxel :
                              voxel_to_chunk(from_hex2d(voxel, 0)))
  /\ UNCHANGED <<hexLayoutVars, hex_start, hex_ring_num, hex_voxel, hex_chunk,
                 hex_distance, hex_neighbors, hex_neighbor, hex_ns>>

\* f32::round of n / FracDenom: the nearest integer, halves away from zero.
Round(n) ==
  IF n >= 0 THEN ((2 * n) + FracDenom) \div (2 * FracDenom)
            ELSE 0 - (((2 * (0 - n)) + FracDenom) \div (2 * FracDenom))

\* A from_fractional_xz that rounds the three components and stops there.
from_fractional_xz_uncorrected(x, z) ==
  LET y == (0 - x) - z
  IN  <<Round(x), Round(y), Round(z)>>

\* CubeHexCoord::from_fractional_xz; x and z in units of 1 / FracDenom
from_fractional_xz(x, z) ==
  LET y == (0 - x) - z
      rx == Round(x)
      ry == Round(y)
      rz == Round(z)
      x_diff == Abs((rx * FracDenom) - x)
      y_diff == Abs((ry * FracDenom) - y)
      z_diff == Abs((rz * FracDenom) - z)
  IN  IF x_diff > y_diff /\ x_diff > z_diff
        THEN <<(0 - ry) - rz, ry, rz>>
        ELSE IF y_diff > z_diff
               THEN <<rx, (0 - rx) - rz, rz>>
               ELSE <<rx, ry, (0 - rx) - ry>>

\* A get_chunk_voxels whose heights stop before chunk_voxel_height.
Hex_get_chunk_voxels_open_height(chunk) ==
  LET bases == <<chunk>> \o
               FlatMapRange(1, chunk_voxel_radius, LAMBDA ring : get_ring(chunk, ring))
  IN  FlatMapRange(1, Len(bases), LAMBDA i :
        FlatMapRange(0, hex_chunk_voxel_height - 1, LAMBDA h :
          <<from_hex2d(bases[i], h)>>))

\* CubeHexLayout::get_chunk_voxels
Hex_get_chunk_voxels(chunk) ==
  LET bases == <<chunk>> \o
               FlatMapRange(1, chunk_voxel_radius, LAMBDA ring : get_ring(chunk, ring))
  IN  FlatMapRange(1, Len(bases), LAMBDA i :
        FlatMapRange(0, hex_chunk_voxel_height, LAMBDA h :
          <<from_hex2d(bases[i], h)>>))

HexVoxelAtRest ==
  /\ hex_voxels = <<>>
  /\ hex_frac = <<0, 0>>
  /\ hex_coord = <<0, 0, 0>>

\* CubeHexLayout::default has chunk height 20
HexVoxelIdle ==
  /\ hex_chunk_voxel_height = 20
  /\ HexVoxelAtRest

HexVoxelInit ==
  /\ hex_chunk_voxel_height \in 0..MaxHexHeight
  /\ HexVoxelAtRest

\* let voxels = layout.get_chunk_voxels(&chunk)
HexGetChunkVoxels ==
  /\ hex_op \in {"new", "voxel_to_chunk"}
  /\ hex_op' = "get_chunk_voxels"
  /\ hex_voxels' = Hex_get_chunk_voxels(hex_chunk)
  /\ UNCHANGED <<hexLayoutVars, hex_start, hex_ring_num, hex_voxel, hex_chunk,
                 hex_distance, hex_neighbors, hex_neighbor, hex_ns, hex_tiles,
                 hex_resolved, hex_chunk_voxel_height, hex_frac, hex_coord>>

\* let coord = CubeHexCoord::from_fractional_xz(x, z)
HexFromFractionalXZ(x, z) ==
  /\ hex_op = "new"
  /\ hex_op' = "from_fractional_xz"
  /\ hex_frac' = <<x, z>>
  /\ hex_coord' = from_fractional_xz(x, z)
  /\ UNCHANGED <<hexLayoutVars, hex_start, hex_ring_num, hex_voxel, hex_chunk,
                 hex_distance, hex_neighbors, hex_neighbor, hex_ns, hex_tiles,
                 hex_resolved, hex_chunk_voxel_height, hex_voxels>>

HexFractionalNext ==
  \E x \in (0 - MaxFrac)..MaxFrac, z \in (0 - MaxFrac)..MaxFrac :
    HexFromFractionalXZ(x, z)

HexVoxelNext ==
  \/ /\ \E x \in HexTileCoords, z \in HexTileCoords : HexVoxelToChunk(x, z)
     /\ UNCHANGED hexVoxelVars
  \/ HexGetChunkVoxels

HexNext ==
  \/ \E x \in HexTileCoords, z \in HexTileCoords : HexVoxelToChunk(x, z)
  \/ \E index \in 0..5 : HexWalk(index)
  \/ \E distance \in 1..MaxHexDistance : HexGetChunkNeighbors(distance)
  \/ \E i \in 1..Len(hex_neighbors) : HexNeighborsOfNeighbor(i)
  \/ HexResolveChunkTiles

(***************************************************************************)
(* CubeHexCoord arithmetic: src/hex_layout.rs and src/terrain/hex.rs       *)
(***************************************************************************)
CoordImpls == {"hex_layout", "terrain_hex"}

CoordOperands ==
  {from_xz(x, z) : x \in (0 - MaxOperand)..MaxOperand, z \in (0 - MaxOperand)..MaxOperand}

CoordInit ==
  /\ coord_impl \in CoordImpls
  /\ coord_op = "new"
  /\ coord_a \in CoordOperands
  /\ coord_b \in CoordOperands
  /\ coord_result = <<0, 0, 0>>

CoordIdle ==
  /\ coord_impl = "hex_layout"
  /\ coord_op = "new"
  /\ coord_a = <<0, 0, 0>>
  /\ coord_b = <<0, 0, 0>>
  /\ coord_result = <<0, 0, 0>>

\* let result = a + b
CoordAdd ==
  /\ coord_op = "new"
  /\ coord_op' = "add"
  /\ coord_result' = IF coord_impl = "hex_layout"
                       THEN CubeHexCoord_add(coord_a, coord_b)
                       ELSE terrain_hex_CubeHexCoord_add(coord_a, coord_b)
  /\ UNCHANGED <<coord_impl, coord_a, coord_b>>

\* let result = a - b; src/terrain/hex.rs has no impl Sub
CoordSub ==
  /\ coord_op = "new"
  /\ coord_impl = "hex_layout"
  /\ coord_op' = "sub"
  /\ coord_result' = CubeHexCoord_sub(coord_a, coord_b)
  /\ UNCHANGED <<coord_impl, coord_a, coord_b>>

CoordNext == CoordAdd \/ CoordSub

(***************************************************************************)
(* Construction with any radius: CubeHexLayout::new, CubicVoxelLayout::new *)
(***************************************************************************)
AnyRadius(max) == (0 - MaxBadRadius)..max

\* Either constructor called with a radius that may be zero or negative;
\* neither returns a Result nor asserts, so the layout is built.
ConstructInit ==
  \/ /\ \E chunk_radius \in AnyRadius(MaxRadius) : HexLayoutNew(chunk_radius)
     /\ HexAtRest
     /\ SquareIdle /\ SquareVoxelIdle
  \/ /\ \E origin \in SquareOrigins, length \in AnyRadius(MaxSquareRadius),
           height \in 0..MaxSquareHeight :
             CubicVoxelLayoutNew(origin, length, height)
     /\ SquareVoxelAtRest
     /\ SquareIdle
     /\ HexIdle

\* One voxel_to_chunk call on one of the two layouts.
ConstructNext ==
  \/ /\ sq_op = "new"
     /\ \E x \in HexTileCoords, z \in HexTileCoords : HexVoxelToChunk(x, z)
     /\ UNCHANGED <<squareVars, squareVoxelVars>>
  \/ /\ hex_op = "new"
     /\ \E x \in SquareVoxelCoords, z \in SquareVoxelCoords : SquareVoxelToChunk(x, z)
     /\ UNCHANGED hexVars

(***************************************************************************)
(* Chunk streaming: crates/gen_terrain/src/voxel/mod.rs                    *)
(* The layout resource is CubicVoxelLayout::default().  An Option is <<>>  *)
(* for None and <<v>> for Some(v).  A distance is kept as the square of    *)
(* the f32 length, in voxel units.                                         *)
(***************************************************************************)
\* The systems of VoxelTerrainPlugin; the plugin adds them without an order
\* between them.
Systems == {"spawn_chunks", "calc_chunk_distances", "load_voxels",
            "build_chunk_mesh", "attach_chunk_mesh", "despawn_chunks"}

\* The systems of src/terrain.rs' TerrainPlugin, added without an order too
TerrainSystems == {"chunk_solver", "chunk_despawner", "chunk_spawner"}

\* load_voxels, build_chunk_mesh and attach_chunk_mesh read a chunk's id and
\* the components no other system writes, and change the world only through
\* queued commands, which are applied in the order of build(): every
\* interleaving of them with the other systems ends the tick in the same
\* state.  They run in the order of build(), after the three systems that
\* share ChunkSpawner, Chunk and ChunkTracker, which run in any order.
\* crates/gen_terrain/src/voxel.rs, VoxelTerrainPlugin::build
VoxelRsSystems == {"spawn_chunks", "solve_chunks", "generate_chunk_mesh",
                   "load_voxels", "despawn_chunks"}

\* The systems the running plugin's build() adds
Schedule ==
  IF stream_impl = "gen_terrain" THEN Systems
  ELSE IF stream_impl = "voxel_rs" THEN VoxelRsSystems
  ELSE TerrainSystems

QueueingSystems == <<"load_voxels", "build_chunk_mesh", "attach_chunk_mesh">>

CanRun(system) ==
  /\ system \in pending_systems
  /\ \A k \in 1..Len(QueueingSystems) :
       QueueingSystems[k] = system =>
         pending_systems \subseteq
           {QueueingSystems[j] : j \in k..Len(QueueingSystems)}

\* The literal of despawn_chunks' test
DespawnDistance == 10000

\* No command queued on a live entity
NoEntityCommands ==
  [load_voxels |-> {}, build_chunk_mesh |-> {}, attach_chunk_mesh |-> {},
   despawn_chunks |-> {}]

\* ChunkSpawner::default() on an entity standing at translation
ChunkSpawner(translation) ==
  [translation |-> translation, last_loaded_chunk |-> <<>>, fresh |-> FALSE]

\* The entity spawn_chunks requests for a chunk: Chunk { id, 0. } and the
\* task that loads its voxels.  The Entity that spawn() reserves is named
\* by the tick of the request and the chunk.  A task is "pending" while the
\* pool works on it, "finished" once its output waits to be polled and
\* "taken" once poll_once has returned the output; "none" stands for an
\* entity without the Task component.
Chunk(id) ==
  [entity |-> <<ticks, id>>, id |-> id, distance_to_nearest_spawner |-> 0,
   load_voxels_task |-> "pending", voxel_data |-> FALSE,
   mesh_task |-> "none", mesh |-> FALSE]

\* The centres of the chunks of the diagonal from (0, 0) on, and of a chunk
\* farther away than despawn_chunks' distance
SitePositions ==
  {CubicVoxelLayout_chunk_to_space(<<x, x>>) : x \in 0..MaxSitePos}
    \cup {CubicVoxelLayout_chunk_to_space(<<FarChunk, 0>>)}

\* A loop that requests a record for every candidate, tracked or not.
RECURSIVE spawn_candidates_untracked(_, _, _)
spawn_candidates_untracked(acc, candidates, k) ==
  IF k > Len(candidates) THEN acc
  ELSE LET chunk == candidates[k]
           out == try_spawn(acc.loaded_chunks, chunk)
       IN  spawn_candidates_untracked(
             [loaded_chunks |-> out.loaded_chunks,
              commands |-> Append(acc.commands, Chunk(chunk)),
              tried |-> Append(acc.tried, chunk)],
             candidates, k + 1)

\* for chunk in once(current_chunk).chain(neighbors), from the k-th on
RECURSIVE spawn_candidates(_, _, _)
spawn_candidates(acc, candidates, k) ==
  IF k > Len(candidates) THEN acc
  ELSE LET chunk == candidates[k]
           out == try_spawn(acc.loaded_chunks, chunk)
       IN  spawn_candidates(
             [loaded_chunks |-> out.loaded_chunks,
              commands |-> IF out.retval THEN Append(acc.commands, Chunk(chunk))
                                         ELSE acc.commands,
              tried |-> Append(acc.tried, chunk)],
             candidates, k + 1)

LogEntry(before, after, i, current_chunk, tried) ==
  [current_chunk |-> current_chunk,
   tried |-> tried,
   site_before |-> before.sites[i],
   site_after |-> after.sites[i],
   loaded_before |-> before.loaded_chunks,
   loaded_after |-> after.loaded_chunks,
   commands_before |-> before.commands,
   commands_after |-> after.commands]

\* A loop body without the `continue` of a site that has not changed chunk.
spawn_site_no_skip(acc, i) ==
  LET site == acc.sites[i]
      current_chunk == CubicVoxelLayout_space_to_chunk(site.translation)
      neighbors == CubicVoxelLayout_get_chunk_neighbors(current_chunk, 2)
      out == spawn_candidates(
               [loaded_chunks |-> acc.loaded_chunks, commands |-> acc.commands,
                tried |-> <<>>],
               <<current_chunk>> \o neighbors, 1)
      after == [sites |-> [acc.sites EXCEPT ![i].fresh = TRUE,
                                            ![i].last_loaded_chunk = <<current_chunk>>],
                loaded_chunks |-> out.loaded_chunks,
                commands |-> out.commands,
                log |-> acc.log]
  IN  [after EXCEPT !.log = Append(@,
         LogEntry(acc, after, i, current_chunk, out.tried))]

\* A loop body that asks for the neighbours of one ring only.
spawn_site_one_ring(acc, i) ==
  LET site == acc.sites[i]
      current_chunk == CubicVoxelLayout_space_to_chunk(site.translation)
      neighbors == CubicVoxelLayout_get_chunk_neighbors(current_chunk, 1)
      out == spawn_candidates(
               [loaded_chunks |-> acc.loaded_chunks, commands |-> acc.commands,
                tried |-> <<>>],
               <<current_chunk>> \o neighbors, 1)
      after == [sites |-> [acc.sites EXCEPT ![i].fresh = TRUE,
                                            ![i].last_loaded_chunk = <<current_chunk>>],
                loaded_chunks |-> out.loaded_chunks,
                commands |-> out.commands,
                log |-> acc.log]
  IN  IF site.last_loaded_chunk = <<current_chunk>>
        THEN [acc EXCEPT !.log = Append(@,
               LogEntry(acc, acc, i, current_chunk, <<>>))]
        ELSE [after EXCEPT !.log = Append(@,
               LogEntry(acc, after, i, current_chunk, out.tried))]

\* The body of spawn_chunks' loop for the i-th site; acc holds the sites,
\* the tracker's set, the queued commands and the history of the pass.
spawn_site(acc, i) ==
  LET site == acc.sites[i]
      current_chunk == CubicVoxelLayout_space_to_chunk(site.translation)
      neighbors == CubicVoxelLayout_get_chunk_neighbors(current_chunk, 2)
      out == spawn_candidates(
               [loaded_chunks |-> acc.loaded_chunks, commands |-> acc.commands,
                tried |-> <<>>],
               <<current_chunk>> \o neighbors, 1)
      after == [sites |-> [acc.sites EXCEPT ![i].fresh = TRUE,
                                            ![i].last_loaded_chunk = <<current_chunk>>],
                loaded_chunks |-> out.loaded_chunks,
                commands |-> out.commands,
                log |-> acc.log]
  IN  IF site.last_loaded_chunk = <<current_chunk>>
        THEN [acc EXCEPT !.log = Append(@,
               LogEntry(acc, acc, i, current_chunk, <<>>))]
        ELSE [after EXCEPT !.log = Append(@,
               LogEntry(acc, after, i, current_chunk, out.tried))]

\* for (transform, mut site) in query.iter_mut(), from the i-th site on
RECURSIVE spawn_chunks(_, _)
spawn_chunks(acc, i) ==
  IF i > Len(acc.sites) THEN acc ELSE spawn_chunks(spawn_site(acc, i), i + 1)

\* CubicVoxelLayout::get_chunk_distance, squared
get_chunk_distance(a, b) ==
  LET sa == CubicVoxelLayout_chunk_to_space(a)
      sb == CubicVoxelLayout_chunk_to_space(b)
      d == <<sa[1] - sb[1], sa[2] - sb[2], sa[3] - sb[3]>>
  IN  ((d[1] * d[1]) + (d[2] * d[2]) + (d[3] * d[3])) \div (SpaceDenom * SpaceDenom)

\* The inner loop of calc_chunk_distances from the k-th fresh site on;
\* min_distance is <<>> while it still holds f32::MAX.
RECURSIVE min_distance_from(_, _, _, _)
min_distance_from(id, fresh_sites, k, min_distance) ==
  IF k > Len(fresh_sites) THEN min_distance
  ELSE LET d == get_chunk_distance(id, fresh_sites[k].last_loaded_chunk[1])
           m == IF min_distance = <<>> \/ d < min_distance[1] THEN <<d>>
                                                              ELSE min_distance
       IN  min_distance_from(id, fresh_sites, k + 1, m)

\* The sites with fresh set, in query order
RECURSIVE fresh_sites_of(_)
fresh_sites_of(ss) ==
  IF ss = <<>> THEN <<>>
  ELSE (IF Head(ss).fresh THEN <<Head(ss)>> ELSE <<>>) \o fresh_sites_of(Tail(ss))

\* The ids of a set of chunk entities
ids_of(entities) == {chunk.id : chunk \in entities}

\* despawn_chunks' test of the distance of a chunk
too_far(chunk) ==
  chunk.distance_to_nearest_spawner > DespawnDistance * DespawnDistance

\* A loop that despawns the entity without asking the tracker.
despawn_chunks_without_tracker(loaded, qry) ==
  [loaded_chunks |-> loaded,
   despawned |-> {chunk.entity : chunk \in {c \in qry : too_far(c)}}]

\* The loop of despawn_chunks over the entities of qry, with the tracker
\* holding loaded: try_despawn is true for the first entity of an id that
\* passes the test of the distance, and false for every later one.
despawn_chunks(loaded, qry) ==
  LET candidates(id) == {chunk \in qry : chunk.id = id /\ too_far(chunk)}
      gone == {id \in loaded : candidates(id) # {}}
  IN  [loaded_chunks |-> loaded \ gone,
       despawned |-> {(CHOOSE chunk \in candidates(id) : TRUE).entity :
                        id \in gone}]

\* future::poll_once on a task: the output of a finished task is taken.
poll_once(task) ==
  IF task = "finished" THEN "taken"
  ELSE IF task = "taken" THEN "polled after completion"
  ELSE task

\* Commands of load_voxels that insert the voxel data and leave the task
\* handle on the entity.
apply_entity_commands_keeps_task(queued, chunk) ==
  LET loaded == IF chunk.entity \in queued.load_voxels
                  THEN [chunk EXCEPT !.voxel_data = TRUE]
                  ELSE chunk
      meshing == IF chunk.entity \in queued.build_chunk_mesh
                   THEN [loaded EXCEPT !.mesh_task = "pending"]
                   ELSE loaded
  IN  IF chunk.entity \in queued.attach_chunk_mesh
        THEN [meshing EXCEPT !.mesh = TRUE]
        ELSE meshing

\* Commands that find their entity by the chunk id it carries.
apply_entity_commands_by_id(queued, chunk) ==
  LET ids(entities) == {entity[2] : entity \in entities}
      loaded == IF chunk.id \in ids(queued.load_voxels)
                  THEN [chunk EXCEPT !.voxel_data = TRUE,
                                     !.load_voxels_task = "none"]
                  ELSE chunk
      meshing == IF chunk.id \in ids(queued.build_chunk_mesh)
                   THEN [loaded EXCEPT !.mesh_task = "pending"]
                   ELSE loaded
  IN  IF chunk.id \in ids(queued.attach_chunk_mesh)
        THEN [meshing EXCEPT !.mesh = TRUE]
        ELSE meshing

\* The entity that the commands queued on it during the tick leave behind:
\* load_voxels' insert(voxel_data).remove::<Task<ChunkVoxelData>>(), then
\* build_chunk_mesh's insert(gen_mesh_task), then attach_chunk_mesh's
\* insert_bundle(PbrBundle { mesh, .. }).
apply_entity_commands(queued, chunk) ==
  LET loaded == IF chunk.entity \in queued.load_voxels
                  THEN [chunk EXCEPT !.voxel_data = TRUE,
                                     !.load_voxels_task = "none"]
                  ELSE chunk
      meshing == IF chunk.entity \in queued.build_chunk_mesh
                   THEN [loaded EXCEPT !.mesh_task = "pending"]
                   ELSE loaded
  IN  IF chunk.entity \in queued.attach_chunk_mesh
        THEN [meshing EXCEPT !.mesh = TRUE]
        ELSE meshing

\* The sites that have loaded a chunk, fresh or not, in query order
RECURSIVE loaded_sites_of(_)
loaded_sites_of(ss) ==
  IF ss = <<>> THEN <<>>
  ELSE (IF Head(ss).last_loaded_chunk # <<>> THEN <<Head(ss)>> ELSE <<>>)
         \o loaded_sites_of(Tail(ss))

\* A pass that does not filter the sites by their fresh flag.
calc_chunk_distances_unfiltered(spawners, qry) ==
  LET fresh_sites == loaded_sites_of(spawners)
  IN  IF Len(fresh_sites) = 0 \/ qry = {}
        THEN [sites |-> spawners, chunks |-> qry]
        ELSE [sites |-> [i \in 1..Len(spawners) |->
                           [spawners[i] EXCEPT !.fresh = FALSE]],
              chunks |-> {[chunk EXCEPT !.distance_to_nearest_spawner =
                             min_distance_from(chunk.id, fresh_sites, 1, <<>>)[1]] :
                          chunk \in qry}]

\* A pass that keeps, for every chunk, the distance to the last fresh site.
calc_chunk_distances_last_site(spawners, qry) ==
  LET fresh_sites == fresh_sites_of(spawners)
  IN  IF Len(fresh_sites) = 0 \/ qry = {}
        THEN [sites |-> spawners, chunks |-> qry]
        ELSE [sites |-> [i \in 1..Len(spawners) |->
                           [spawners[i] EXCEPT !.fresh = FALSE]],
              chunks |-> {[chunk EXCEPT !.distance_to_nearest_spawner =
                             get_chunk_distance(chunk.id,
                               fresh_sites[Len(fresh_sites)].last_loaded_chunk[1])] :
                          chunk \in qry}]

\* calc_chunk_distances on the sites spawners and the chunk entities qry:
\* it returns early without a fresh site, and clears the fresh flags inside
\* its loop over the chunks.
calc_chunk_distances(spawners, qry) ==
  LET fresh_sites == fresh_sites_of(spawners)
  IN  IF Len(fresh_sites) = 0 \/ qry = {}
        THEN [sites |-> spawners, chunks |-> qry]
        ELSE [sites |-> [i \in 1..Len(spawners) |->
                           [spawners[i] EXCEPT !.fresh = FALSE]],
              chunks |-> {[chunk EXCEPT !.distance_to_nearest_spawner =
                             min_distance_from(chunk.id, fresh_sites, 1, <<>>)[1]] :
                          chunk \in qry}]

StreamInit ==
  /\ \E n \in 1..MaxSites : sites = [i \in 1..n |-> ChunkSpawner(<<0, 0, 0>>)]
  /\ chunks = {}
  /\ commands = <<>>
  /\ pending_systems = Systems
  /\ ticks = 0
  /\ spawn_log = <<>>
  /\ entity_commands = NoEntityCommands
  /\ distance_log = <<>>
  /\ despawn_log = <<>>
  /\ stream_impl = "gen_terrain"
  /\ despawn_timer = <<>>
  /\ min_despawn_distance = <<>>
  /\ loaded_chunks = {}

StreamIdle ==
  /\ sites = <<>>
  /\ chunks = {}
  /\ commands = <<>>
  /\ pending_systems = Systems
  /\ ticks = 0
  /\ spawn_log = <<>>
  /\ entity_commands = NoEntityCommands
  /\ distance_log = <<>>
  /\ despawn_log = <<>>
  /\ stream_impl = "gen_terrain"
  /\ despawn_timer = <<>>
  /\ min_despawn_distance = <<>>

\* Between two ticks the host moves a site's Transform.
SiteMove(i, translation) ==
  /\ pending_systems = Schedule
  /\ sites[i].translation # translation
  /\ sites' = [sites EXCEPT ![i].translation = translation]
  /\ UNCHANGED <<loaded_chunks, chunks, commands, pending_systems, ticks,
                 spawn_log, entity_commands, distance_log, despawn_log>>
  /\ UNCHANGED <<stream_impl, despawn_timer, min_despawn_distance>>

\* Between two ticks the task pool finishes the tasks of the chunks ids.
WorkerFinish(ids) ==
  /\ pending_systems = Schedule
  /\ \E chunk \in chunks :
       /\ chunk.id \in ids
       /\ "pending" \in {chunk.load_voxels_task, chunk.mesh_task}
  /\ chunks' =
       {IF chunk.id \in ids
          THEN [chunk EXCEPT
                  !.load_voxels_task = IF @ = "pending" THEN "finished" ELSE @,
                  !.mesh_task = IF @ = "pending" THEN "finished" ELSE @]
          ELSE chunk : chunk \in chunks}
  /\ UNCHANGED <<sites, loaded_chunks, commands, pending_systems, ticks,
                 spawn_log, entity_commands, distance_log, despawn_log>>
  /\ UNCHANGED <<stream_impl, despawn_timer, min_despawn_distance>>

\* A spawn pass whose records are live at once, at a distance past the
\* despawn threshold.
SpawnChunks_immediate ==
  /\ CanRun("spawn_chunks")
  /\ LET out == spawn_chunks([sites |-> sites, loaded_chunks |-> loaded_chunks,
                              commands |-> <<>>, log |-> <<>>], 1)
     IN  /\ sites' = out.sites
         /\ loaded_chunks' = out.loaded_chunks
         /\ chunks' = chunks \cup
              {[chunk EXCEPT !.distance_to_nearest_spawner =
                  (DespawnDistance * DespawnDistance) + 1] :
               chunk \in SeqToSet(out.commands)}
         /\ spawn_log' = out.log
  /\ pending_systems' = pending_systems \ {"spawn_chunks"}
  /\ UNCHANGED <<commands, ticks, entity_commands, distance_log, despawn_log>>
  /\ UNCHANGED <<stream_impl, despawn_timer, min_despawn_distance>>

\* The system spawn_chunks
SpawnChunks ==
  /\ CanRun("spawn_chunks")
  /\ LET out == spawn_chunks([sites |-> sites, loaded_chunks |-> loaded_chunks,
                              commands |-> commands, log |-> <<>>], 1)
     IN  /\ sites' = out.sites
         /\ loaded_chunks' = out.loaded_chunks
         /\ commands' = out.commands
         /\ spawn_log' = out.log
  /\ pending_systems' = pending_systems \ {"spawn_chunks"}
  /\ UNCHANGED <<chunks, ticks, entity_commands, distance_log, despawn_log>>
  /\ UNCHANGED <<stream_impl, despawn_timer, min_despawn_distance>>

\* The system calc_chunk_distances
CalcChunkDistances ==
  /\ CanRun("calc_chunk_distances")
  /\ LET out == calc_chunk_distances(sites, chunks)
     IN  /\ sites' = out.sites
         /\ chunks' = out.chunks
  /\ distance_log' = <<[sites |-> sites, chunks |-> chunks,
                        loaded_chunks |-> loaded_chunks]>>
  /\ pending_systems' = pending_systems \ {"calc_chunk_distances"}
  /\ UNCHANGED <<loaded_chunks, commands, ticks, spawn_log, entity_commands,
                 despawn_log>>
  /\ UNCHANGED <<stream_impl, despawn_timer, min_despawn_distance>>

\* The system load_voxels: every Task<ChunkVoxelData> is polled once.
LoadVoxels ==
  /\ CanRun("load_voxels")
  /\ chunks' = {IF chunk.load_voxels_task = "none" THEN chunk
                ELSE [chunk EXCEPT !.load_voxels_task = poll_once(@)] :
                chunk \in chunks}
  /\ entity_commands' =
       [entity_commands EXCEPT !.load_voxels =
          {chunk.entity : chunk \in
             {c \in chunks : c.load_voxels_task = "finished"}}]
  /\ pending_systems' = pending_systems \ {"load_voxels"}
  /\ UNCHANGED <<sites, loaded_chunks, commands, ticks, spawn_log,
                 distance_log, despawn_log>>
  /\ UNCHANGED <<stream_impl, despawn_timer, min_despawn_distance>>

\* A build_chunk_mesh that does not ask for ChunkVoxelData.
BuildChunkMesh_without_voxels ==
  /\ CanRun("build_chunk_mesh")
  /\ entity_commands' =
       [entity_commands EXCEPT !.build_chunk_mesh =
          {chunk.entity : chunk \in {c \in chunks : ~c.mesh}}]
  /\ pending_systems' = pending_systems \ {"build_chunk_mesh"}
  /\ UNCHANGED <<sites, loaded_chunks, chunks, commands, ticks, spawn_log,
                 distance_log, despawn_log>>
  /\ UNCHANGED <<stream_impl, despawn_timer, min_despawn_distance>>

\* The system build_chunk_mesh: a mesh task for every entity with
\* ChunkVoxelData and without Handle<Mesh>.
BuildChunkMesh ==
  /\ CanRun("build_chunk_mesh")
  /\ entity_commands' =
       [entity_commands EXCEPT !.build_chunk_mesh =
          {chunk.entity : chunk \in
             {c \in chunks : c.voxel_data /\ ~c.mesh}}]
  /\ pending_systems' = pending_systems \ {"build_chunk_mesh"}
  /\ UNCHANGED <<sites, loaded_chunks, chunks, commands, ticks, spawn_log,
                 distance_log, despawn_log>>
  /\ UNCHANGED <<stream_impl, despawn_timer, min_despawn_distance>>

\* The system attach_chunk_mesh: every Task<Mesh> of an entity without
\* Handle<Mesh> is polled once.
AttachChunkMesh ==
  /\ CanRun("attach_chunk_mesh")
  /\ chunks' = {IF chunk.mesh_task = "none" \/ chunk.mesh THEN chunk
                ELSE [chunk EXCEPT !.mesh_task = poll_once(@)] :
                chunk \in chunks}
  /\ entity_commands' =
       [entity_commands EXCEPT !.attach_chunk_mesh =
          {chunk.entity : chunk \in
             {c \in chunks : c.mesh_task = "finished" /\ ~c.mesh}}]
  /\ pending_systems' = pending_systems \ {"attach_chunk_mesh"}
  /\ UNCHANGED <<sites, loaded_chunks, commands, ticks, spawn_log,
                 distance_log, despawn_log>>
  /\ UNCHANGED <<stream_impl, despawn_timer, min_despawn_distance>>

\* The system despawn_chunks
DespawnChunks ==
  /\ CanRun("despawn_chunks")
  /\ LET out == despawn_chunks(loaded_chunks, chunks)
     IN  /\ loaded_chunks' = out.loaded_chunks
         /\ entity_commands' =
              [entity_commands EXCEPT !.despawn_chunks = out.despawned]
  /\ despawn_log' = <<[loaded_chunks |-> loaded_chunks, chunks |-> chunks,
                       timer |-> <<>>]>>
  /\ pending_systems' = pending_systems \ {"despawn_chunks"}
  /\ UNCHANGED <<sites, chunks, commands, ticks, spawn_log, distance_log>>
  /\ UNCHANGED <<stream_impl, despawn_timer, min_despawn_distance>>

\* The order in which the stage applies the command queues of the systems
\* that address entities: the order of build().
CommandOrder == QueueingSystems \o <<"despawn_chunks">>

\* The commands that address an entity that is not there when they are
\* applied: it was never live, or an earlier queue despawned it.
missing_entity(queued, live) ==
  {<<k, entity>> \in (1..Len(CommandOrder)) \X UNION {queued[s] : s \in DOMAIN queued} :
     /\ entity \in queued[CommandOrder[k]]
     /\ \/ entity \notin {chunk.entity : chunk \in live}
        \/ \E j \in 1..(k - 1) :
             /\ CommandOrder[j] = "despawn_chunks"
             /\ entity \in queued[CommandOrder[j]]}

\* The end of the stage: the queued commands are applied, system by system
\* in the order of build(): the requested entities are spawned, the components
\* are inserted and removed, the despawned entities go.
ApplyCommandsAt(next_tick) ==
  /\ pending_systems = {}
  /\ chunks' =
       {apply_entity_commands(entity_commands, chunk) :
          chunk \in {c \in chunks \cup SeqToSet(commands) :
                       c.entity \notin entity_commands.despawn_chunks}}
  /\ commands' = <<>>
  /\ entity_commands' = NoEntityCommands
  /\ pending_systems' = Schedule
  /\ ticks' = next_tick
  /\ spawn_log' = <<>>
  /\ distance_log' = <<>>
  /\ despawn_log' = <<>>
  /\ UNCHANGED <<sites, loaded_chunks>>
  /\ UNCHANGED <<stream_impl, despawn_timer, min_despawn_distance>>

\* The end of the stage of the tick numbered ticks
ApplyCommands == ApplyCommandsAt(ticks + 1)

\* The chunks whose tasks finish together
TaskBatches == {{chunk.id : chunk \in chunks}}

\* A system of the schedule runs
RunSystem ==
  \/ SpawnChunks
  \/ CalcChunkDistances
  \/ LoadVoxels
  \/ BuildChunkMesh
  \/ AttachChunkMesh
  \/ DespawnChunks

\* One tick of the schedule
Tick == RunSystem \/ ApplyCommands

\* The sites move while the tasks of the chunks stay with the pool.
StreamNext ==
  \/ \E i \in 1..Len(sites), translation \in SitePositions : SiteMove(i, translation)
  \/ Tick

\* One site; the pool finishes tasks while the site moves.  The layout
\* resource is CubicVoxelLayout::default() or one with chunks of radius 2.
PipelineInit ==
  /\ StreamInit
  /\ Len(sites) = 1
  /\ \E length \in {2, 11} : CubicVoxelLayoutNew(<<0, 0>>, length, 10)
  /\ SquareVoxelAtRest

PipelineNext ==
  \/ \E translation \in SitePositions : SiteMove(1, translation)
  \/ \E ids \in TaskBatches : WorkerFinish(ids)
  \/ Tick

(***************************************************************************)
(* The pipeline running for ever: one site that stays on its chunk, the     *)
(* ticks numbered up to MaxTicks and the later ones all numbered MaxTicks.  *)
(* The task pool works while the systems run: a task is "pending" until    *)
(* the pool has worked on it, then "running", then "finished"; a task that  *)
(* insert() replaces is dropped, and the new one is "pending".              *)
(***************************************************************************)
\* The pool has worked on the pending tasks; they still run.
PoolWorks ==
  /\ \E chunk \in chunks : "pending" \in {chunk.load_voxels_task, chunk.mesh_task}
  /\ chunks' =
       {[chunk EXCEPT
           !.load_voxels_task = IF @ = "pending" THEN "running" ELSE @,
           !.mesh_task = IF @ = "pending" THEN "running" ELSE @] :
        chunk \in chunks}
  /\ UNCHANGED <<sites, loaded_chunks, commands, pending_systems, ticks,
                 spawn_log, entity_commands, distance_log, despawn_log>>
  /\ UNCHANGED <<stream_impl, despawn_timer, min_despawn_distance>>

\* The pool completes the tasks it was left to run.
PoolCompletes ==
  /\ \E chunk \in chunks : "running" \in {chunk.load_voxels_task, chunk.mesh_task}
  /\ chunks' =
       {[chunk EXCEPT
           !.load_voxels_task = IF @ = "running" THEN "finished" ELSE @,
           !.mesh_task = IF @ = "running" THEN "finished" ELSE @] :
        chunk \in chunks}
  /\ UNCHANGED <<sites, loaded_chunks, commands, pending_systems, ticks,
                 spawn_log, entity_commands, distance_log, despawn_log>>
  /\ UNCHANGED <<stream_impl, despawn_timer, min_despawn_distance>>

\* The stage ends
LiveApplyCommands ==
  ApplyCommandsAt(IF ticks < MaxTicks THEN ticks + 1 ELSE ticks)

\* A system runs, or the stage ends
LiveTick == RunSystem \/ LiveApplyCommands

LiveInit ==
  /\ StreamInit
  /\ Len(sites) = 1
  /\ CubicVoxelLayoutNew(<<0, 0>>, 11, 10)
  /\ SquareVoxelAtRest

LiveNext ==
  \/ LiveTick
  \/ \E ids \in TaskBatches : WorkerFinish(ids)
  \/ PoolWorks
  \/ PoolCompletes

(***************************************************************************)
(* Chunk streaming: src/terrain.rs, TerrainPlugin over CubeLayout as       *)
(* src/main.rs builds it.  A distance is the i32 the layout returns.  The   *)
(* Timer is bevy's: tick(delta) adds delta to the elapsed time and sets     *)
(* finished once the duration is reached, reset() starts it again.  Under   *)
(* "terrain_old" the despawn pass is the chunk_despawner of                 *)
(* src/terrain-old/chunk.rs with that file's ChunkTracker::default().       *)
(***************************************************************************)
TerrainImpls == {"terrain", "terrain_old"}

\* Timer::new(Duration::from_secs(seconds), true)
Timer(seconds) ==
  [elapsed |-> 0, duration |-> seconds * DeltaDenom, finished |-> FALSE]

Timer_tick(timer, delta) ==
  [timer EXCEPT !.elapsed = timer.elapsed + delta,
                !.finished = timer.elapsed + delta >= timer.duration]

Timer_reset(timer) == [timer EXCEPT !.elapsed = 0, !.finished = FALSE]

\* time.delta_seconds of a tick: a short frame, or one as long as the
\* timer's duration
Deltas == {1, despawn_timer.duration}

\* src/cube_layout.rs, CubeLayout::space_to_chunk: the code of
\* CubicVoxelLayout::space_to_chunk
CubeLayout_space_to_chunk(space) == CubicVoxelLayout_space_to_chunk(space)

\* src/cube_layout.rs, CubeLayout::get_chunk_distance: the length of the
\* difference of the chunk coordinates, truncated by `as i32`
CubeLayout_get_chunk_distance(a, b) ==
  LET dx == Abs(a[1] - b[1])
      dy == Abs(a[2] - b[2])
      n == (dx * dx) + (dy * dy)
  IN  CHOOSE k \in Max(dx, dy)..(dx + dy) : k * k <= n /\ n < (k + 1) * (k + 1)

\* ChunkSiteComponent::default() on an entity standing at translation
ChunkSiteComponent(translation) ==
  [translation |-> translation, last_loaded_chunk |-> <<>>, fresh |-> FALSE]

\* The entity chunk_spawner requests for a chunk
ChunkComponent(id) ==
  [entity |-> <<ticks, id>>, id |-> id, distance_to_nearest_site |-> 0,
   loaded |-> FALSE, voxels |-> <<>>]

\* for chunk in once(current_chunk).chain(neighbors), from the k-th on
RECURSIVE chunk_spawner_candidates(_, _, _)
chunk_spawner_candidates(acc, candidates, k) ==
  IF k > Len(candidates) THEN acc
  ELSE LET chunk == candidates[k]
           out == terrain_try_spawn(acc.loaded_chunks, chunk)
       IN  chunk_spawner_candidates(
             [loaded_chunks |-> out.loaded_chunks,
              commands |-> IF out.retval
                             THEN Append(acc.commands, ChunkComponent(chunk))
                             ELSE acc.commands,
              tried |-> Append(acc.tried, chunk)],
             candidates, k + 1)

\* The body of chunk_spawner's loop for the i-th site
chunk_spawner_site(acc, i) ==
  LET site == acc.sites[i]
      current_chunk == CubeLayout_space_to_chunk(site.translation)
      neighbors == CubeLayout_get_chunk_neighbors(current_chunk, 2)
      out == chunk_spawner_candidates(
               [loaded_chunks |-> acc.loaded_chunks, commands |-> acc.commands,
                tried |-> <<>>],
               <<current_chunk>> \o neighbors, 1)
      after == [sites |-> [acc.sites EXCEPT ![i].fresh = TRUE,
                                            ![i].last_loaded_chunk = <<current_chunk>>],
                loaded_chunks |-> out.loaded_chunks,
                commands |-> out.commands,
                log |-> acc.log]
  IN  IF site.last_loaded_chunk = <<current_chunk>>
        THEN [acc EXCEPT !.log = Append(@,
               LogEntry(acc, acc, i, current_chunk, <<>>))]
        ELSE [after EXCEPT !.log = Append(@,
               LogEntry(acc, after, i, current_chunk, out.tried))]

\* for (translation, mut site) in &mut query.iter(), from the i-th site on
RECURSIVE chunk_spawner(_, _)
chunk_spawner(acc, i) ==
  IF i > Len(acc.sites) THEN acc
  ELSE chunk_spawner(chunk_spawner_site(acc, i), i + 1)

\* chunk_solver from the i-th site on: a fresh site loses its flag and
\* every chunk takes its distance to that site.
RECURSIVE chunk_solver(_, _)
chunk_solver(acc, i) ==
  IF i > Len(acc.sites) THEN acc
  ELSE LET site == acc.sites[i]
       IN  IF ~site.fresh THEN chunk_solver(acc, i + 1)
           ELSE chunk_solver(
                  [sites |-> [acc.sites EXCEPT ![i].fresh = FALSE],
                   chunks |-> {[chunk EXCEPT !.distance_to_nearest_site =
                                  CubeLayout_get_chunk_distance(chunk.id,
                                    site.last_loaded_chunk[1])] :
                               chunk \in acc.chunks}],
                  i + 1)

\* src/terrain-old/chunk.rs, chunk_despawner: once the timer has finished
\* every entity beyond min_despawn_distance is despawned; the tracker is
\* not asked.
terrain_old_chunk_despawner(tracker, qry, delta) ==
  LET timer == Timer_tick(tracker.despawn_timer, delta)
  IN  IF timer.finished
        THEN [loaded_chunks |-> tracker.loaded_chunks,
              despawned |-> {chunk.entity : chunk \in
                               {c \in qry : c.distance_to_nearest_site
                                              > tracker.min_despawn_distance}},
              despawn_timer |-> Timer_reset(timer),
              ticked |-> timer]
        ELSE [loaded_chunks |-> tracker.loaded_chunks, despawned |-> {},
              despawn_timer |-> timer, ticked |-> timer]

\* src/terrain.rs, chunk_despawner: once the timer has finished, try_despawn
\* is true for the first entity of an id beyond min_despawn_distance and
\* false for every later one.
chunk_despawner(tracker, qry, delta) ==
  LET timer == Timer_tick(tracker.despawn_timer, delta)
      candidates(id) ==
        {chunk \in qry : /\ chunk.id = id
                         /\ chunk.distance_to_nearest_site
                              > tracker.min_despawn_distance}
      gone == {id \in tracker.loaded_chunks : candidates(id) # {}}
  IN  IF timer.finished
        THEN [loaded_chunks |-> tracker.loaded_chunks \ gone,
              despawned |-> {(CHOOSE chunk \in candidates(id) : TRUE).entity :
                               id \in gone},
              despawn_timer |-> Timer_reset(timer),
              ticked |-> timer]
        ELSE [loaded_chunks |-> tracker.loaded_chunks, despawned |-> {},
              despawn_timer |-> timer, ticked |-> timer]

\* TerrainPlugin::build and ChunkTracker::default() of the implementation
TerrainInit ==
  /\ stream_impl \in TerrainImpls
  /\ \E n \in 1..MaxSites : sites = [i \in 1..n |-> ChunkSiteComponent(<<0, 0, 0>>)]
  /\ chunks = {}
  /\ commands = <<>>
  /\ pending_systems = TerrainSystems
  /\ ticks = 0
  /\ spawn_log = <<>>
  /\ entity_commands = NoEntityCommands
  /\ distance_log = <<>>
  /\ despawn_log = <<>>
  /\ loaded_chunks = {}
  /\ despawn_timer = IF stream_impl = "terrain" THEN Timer(1) ELSE Timer(5)
  /\ min_despawn_distance = IF stream_impl = "terrain" THEN 10 ELSE 5
  \* CubeLayout::default()
  /\ CubicVoxelLayoutNew(<<0, 0>>, 50, 10)
  /\ SquareVoxelAtRest

\* The system chunk_spawner
ChunkSpawnerSystem ==
  /\ CanRun("chunk_spawner")
  /\ LET out == chunk_spawner([sites |-> sites, loaded_chunks |-> loaded_chunks,
                               commands |-> commands, log |-> <<>>], 1)
     IN  /\ sites' = out.sites
         /\ loaded_chunks' = out.loaded_chunks
         /\ commands' = out.commands
         /\ spawn_log' = out.log
  /\ pending_systems' = pending_systems \ {"chunk_spawner"}
  /\ UNCHANGED <<chunks, ticks, entity_commands, distance_log, despawn_log>>
  /\ UNCHANGED <<stream_impl, despawn_timer, min_despawn_distance>>

\* The system chunk_solver
ChunkSolver ==
  /\ CanRun("chunk_solver")
  /\ LET out == chunk_solver([sites |-> sites, chunks |-> chunks], 1)
     IN  /\ sites' = out.sites
         /\ chunks' = out.chunks
  /\ distance_log' = <<[sites |-> sites, chunks |-> chunks,
                        loaded_chunks |-> loaded_chunks]>>
  /\ pending_systems' = pending_systems \ {"chunk_solver"}
  /\ UNCHANGED <<loaded_chunks, commands, ticks, spawn_log, entity_commands,
                 despawn_log>>
  /\ UNCHANGED <<stream_impl, despawn_timer, min_despawn_distance>>

\* The system chunk_despawner on a tick that took delta
ChunkDespawner(delta) ==
  /\ CanRun("chunk_despawner")
  /\ LET tracker == [loaded_chunks |-> loaded_chunks,
                     despawn_timer |-> despawn_timer,
                     min_despawn_distance |-> min_despawn_distance]
         out == IF stream_impl = "terrain"
                  THEN chunk_despawner(tracker, chunks, delta)
                  ELSE terrain_old_chunk_despawner(tracker, chunks, delta)
     IN  /\ loaded_chunks' = out.loaded_chunks
         /\ despawn_timer' = out.despawn_timer
         /\ entity_commands' =
              [entity_commands EXCEPT !.despawn_chunks = out.despawned]
         /\ despawn_log' = <<[loaded_chunks |-> loaded_chunks, chunks |-> chunks,
                              timer |-> <<out.ticked>>]>>
  /\ pending_systems' = pending_systems \ {"chunk_despawner"}
  /\ UNCHANGED <<sites, chunks, commands, ticks, spawn_log, distance_log>>
  /\ UNCHANGED <<stream_impl, min_despawn_distance>>

TerrainNext ==
  \/ \E i \in 1..Len(sites), translation \in SitePositions : SiteMove(i, translation)
  \/ ChunkSpawnerSystem
  \/ ChunkSolver
  \/ \E delta \in Deltas : ChunkDespawner(delta)
  \/ ApplyCommands

(***************************************************************************)
(* Chunk pipeline of crates/gen_terrain/src/voxel.rs: VoxelTerrainPlugin    *)
(* over a Layout L and a VoxelSource S, with CubeLayout::default() standing *)
(* for L.  Voxels are loaded in the system itself, one chunk per frame; an  *)
(* entity is spawned with a Transform and a ChunkComponent and no system    *)
(* gives it a Handle<Mesh>.                                                 *)
(***************************************************************************)
\* solve_chunks: it returns early without a fresh site, and clears the fresh
\* flags inside its loop over the chunks.
voxel_rs_solve_chunks(spawners, qry) ==
  LET fresh_sites == fresh_sites_of(spawners)
      distances(id) ==
        {CubeLayout_get_chunk_distance(id, fresh_sites[k].last_loaded_chunk[1]) :
           k \in 1..Len(fresh_sites)}
  IN  IF Len(fresh_sites) = 0 \/ qry = {}
        THEN [sites |-> spawners, chunks |-> qry]
        ELSE [sites |-> [i \in 1..Len(spawners) |->
                           [spawners[i] EXCEPT !.fresh = FALSE]],
              chunks |-> {[chunk EXCEPT !.distance_to_nearest_site =
                             CHOOSE d \in distances(chunk.id) :
                               \A e \in distances(chunk.id) : d <= e] :
                          chunk \in qry}]

\* The entities of generate_chunk_mesh's query: those with a ChunkComponent
\* and a Handle<Mesh>.  spawn_chunks inserts no Handle<Mesh>.
with_mesh_handle(qry) == {chunk \in qry : FALSE}

\* generate_chunk_mesh: chunks without voxels and loaded chunks are skipped.
voxel_rs_generate_chunk_mesh(qry) ==
  {IF chunk.voxels = <<>> \/ chunk.loaded THEN chunk
   ELSE [chunk EXCEPT !.loaded = TRUE] : chunk \in qry}

\* load_voxels when first is the first chunk without voxels that the query
\* yields: only one chunk is loaded per frame.
voxel_rs_load_voxels(qry, first) ==
  {IF chunk = first THEN [chunk EXCEPT !.voxels = <<"voxels">>] ELSE chunk :
     chunk \in qry}

VoxelRsInit ==
  /\ stream_impl = "voxel_rs"
  /\ sites = <<ChunkSpawner(<<0, 0, 0>>)>>
  /\ chunks = {}
  /\ commands = <<>>
  /\ pending_systems = VoxelRsSystems
  /\ ticks = 0
  /\ spawn_log = <<>>
  /\ entity_commands = NoEntityCommands
  /\ distance_log = <<>>
  /\ despawn_log = <<>>
  /\ loaded_chunks = {}
  /\ despawn_timer = <<>>
  /\ min_despawn_distance = <<>>
  /\ CubicVoxelLayoutNew(<<0, 0>>, 50, 10)
  /\ SquareVoxelAtRest

\* The system spawn_chunks of voxel.rs: the code of terrain.rs' chunk_spawner
VoxelRsSpawnChunks ==
  /\ CanRun("spawn_chunks")
  /\ LET out == chunk_spawner([sites |-> sites, loaded_chunks |-> loaded_chunks,
                               commands |-> commands, log |-> <<>>], 1)
     IN  /\ sites' = out.sites
         /\ loaded_chunks' = out.loaded_chunks
         /\ commands' = out.commands
         /\ spawn_log' = out.log
  /\ pending_systems' = pending_systems \ {"spawn_chunks"}
  /\ UNCHANGED <<chunks, ticks, entity_commands, distance_log, despawn_log>>
  /\ UNCHANGED <<stream_impl, despawn_timer, min_despawn_distance>>

\* The system solve_chunks
VoxelRsSolveChunks ==
  /\ CanRun("solve_chunks")
  /\ LET out == voxel_rs_solve_chunks(sites, chunks)
     IN  /\ sites' = out.sites
         /\ chunks' = out.chunks
  /\ pending_systems' = pending_systems \ {"solve_chunks"}
  /\ UNCHANGED <<loaded_chunks, commands, ticks, spawn_log, entity_commands,
                 distance_log, despawn_log>>
  /\ UNCHANGED <<stream_impl, despawn_timer, min_despawn_distance>>

\* The system generate_chunk_mesh
VoxelRsGenerateChunkMesh ==
  /\ CanRun("generate_chunk_mesh")
  /\ chunks' = (chunks \ with_mesh_handle(chunks))
                 \cup voxel_rs_generate_chunk_mesh(with_mesh_handle(chunks))
  /\ pending_systems' = pending_systems \ {"generate_chunk_mesh"}
  /\ UNCHANGED <<sites, loaded_chunks, commands, ticks, spawn_log,
                 entity_commands, distance_log, despawn_log>>
  /\ UNCHANGED <<stream_impl, despawn_timer, min_despawn_distance>>

\* The system load_voxels; the query yields the chunks in an order of its
\* own.
VoxelRsLoadVoxels ==
  /\ CanRun("load_voxels")
  /\ LET without == {chunk \in chunks : chunk.voxels = <<>>}
     IN  IF without = {} THEN chunks' = chunks
         ELSE \E first \in without : chunks' = voxel_rs_load_voxels(chunks, first)
  /\ pending_systems' = pending_systems \ {"load_voxels"}
  /\ UNCHANGED <<sites, loaded_chunks, commands, ticks, spawn_log,
                 entity_commands, distance_log, despawn_log>>
  /\ UNCHANGED <<stream_impl, despawn_timer, min_despawn_distance>>

\* The system despawn_chunks: its body is commented out.
VoxelRsDespawnChunks ==
  /\ CanRun("despawn_chunks")
  /\ pending_systems' = pending_systems \ {"despawn_chunks"}
  /\ UNCHANGED <<sites, loaded_chunks, chunks, commands, ticks, spawn_log,
                 entity_commands, distance_log, despawn_log>>
  /\ UNCHANGED <<stream_impl, despawn_timer, min_despawn_distance>>

VoxelRsNext ==
  \/ \E translation \in SitePositions : SiteMove(1, translation)
  \/ VoxelRsSpawnChunks
  \/ VoxelRsSolveChunks
  \/ VoxelRsGenerateChunkMesh
  \/ VoxelRsLoadVoxels
  \/ VoxelRsDespawnChunks
  \/ ApplyCommands

\* The two pipelines: the tasks of voxel/mod.rs and the systems of voxel.rs
LifecycleInit == PipelineInit \/ VoxelRsInit

LifecycleNext ==
  \/ stream_impl = "gen_terrain" /\ PipelineNext
  \/ stream_impl = "voxel_rs" /\ VoxelRsNext

(***************************************************************************)
(* Specifications                                                          *)
(***************************************************************************)
Init ==
  /\ TrackerInit
  /\ SquareIdle /\ SquareVoxelIdle /\ HexIdle /\ HexVoxelIdle /\ CoordIdle /\ StreamIdle

Next ==
  /\ TrackerNext
  /\ UNCHANGED <<squareVars, squareVoxelVars, hexVars, hexVoxelVars, coordVars,
               streamVars>>

Spec == Init /\ [][Next]_vars

SquareSpecInit ==
  /\ SquareInit /\ SquareVoxelIdle
  /\ TrackerIdle /\ HexIdle /\ HexVoxelIdle /\ CoordIdle /\ StreamIdle

SquareSpecNext ==
  /\ SquareNext
  /\ UNCHANGED <<trackerVars, squareVoxelVars, hexVars, hexVoxelVars, coordVars,
               streamVars>>

SquareSpec == SquareSpecInit /\ [][SquareSpecNext]_vars

HexSpecInit ==
  /\ HexInit /\ HexVoxelIdle
  /\ TrackerIdle /\ SquareIdle /\ SquareVoxelIdle /\ CoordIdle /\ StreamIdle

HexSpecNext ==
  /\ \/ HexNext /\ UNCHANGED hexVoxelVars
     \/ HexFractionalNext
  /\ UNCHANGED <<trackerVars, squareVars, squareVoxelVars, coordVars,
               streamVars>>

HexSpec == HexSpecInit /\ [][HexSpecNext]_vars

SquareVoxelSpecInit ==
  /\ SquareVoxelInit
  /\ TrackerIdle /\ HexIdle /\ HexVoxelIdle /\ CoordIdle /\ StreamIdle

SquareVoxelSpecNext ==
  /\ SquareVoxelNext
  /\ UNCHANGED <<trackerVars, hexVars, hexVoxelVars, coordVars,
               streamVars>>

SquareVoxelSpec == SquareVoxelSpecInit /\ [][SquareVoxelSpecNext]_vars

HexVoxelSpecInit ==
  /\ HexInit /\ HexVoxelInit
  /\ TrackerIdle /\ SquareIdle /\ SquareVoxelIdle /\ CoordIdle /\ StreamIdle

HexVoxelSpecNext ==
  /\ HexVoxelNext
  /\ UNCHANGED <<trackerVars, squareVars, squareVoxelVars, coordVars,
               streamVars>>

HexVoxelSpec == HexVoxelSpecInit /\ [][HexVoxelSpecNext]_vars

CoordSpecInit ==
  /\ CoordInit
  /\ TrackerIdle /\ SquareIdle /\ SquareVoxelIdle /\ HexIdle /\ HexVoxelIdle /\ StreamIdle

CoordSpecNext ==
  /\ CoordNext
  /\ UNCHANGED <<trackerVars, squareVars, squareVoxelVars, hexVars, hexVoxelVars,
               streamVars>>

CoordSpec == CoordSpecInit /\ [][CoordSpecNext]_vars

ConstructSpecInit ==
  /\ ConstructInit
  /\ TrackerIdle /\ HexVoxelIdle /\ CoordIdle /\ StreamIdle

ConstructSpecNext ==
  /\ ConstructNext
  /\ UNCHANGED <<trackerVars, hexVoxelVars, coordVars,
               streamVars>>

ConstructSpec == ConstructSpecInit /\ [][ConstructSpecNext]_vars

StreamSpecInit ==
  /\ StreamInit
  /\ tracker_impl = "gen_terrain" /\ op = "new" /\ arg = <<0, 0>>
  /\ retval = FALSE /\ prev_loaded = {} /\ calls = 0
  /\ spawn_true = [id \in TrackerIds |-> 0]
  /\ despawn_true = [id \in TrackerIds |-> 0]
  /\ SquareIdle /\ SquareVoxelIdle /\ HexIdle /\ HexVoxelIdle /\ CoordIdle

StreamSpecNext ==
  /\ ticks < MaxTicks
  /\ StreamNext
  /\ UNCHANGED <<tracker_impl, op, arg, retval, prev_loaded, spawn_true,
                 despawn_true, calls>>
  /\ UNCHANGED <<squareVars, squareVoxelVars, hexVars, hexVoxelVars, coordVars>>

StreamSpec == StreamSpecInit /\ [][StreamSpecNext]_vars

PipelineSpecInit ==
  /\ PipelineInit
  /\ tracker_impl = "gen_terrain" /\ op = "new" /\ arg = <<0, 0>>
  /\ retval = FALSE /\ prev_loaded = {} /\ calls = 0
  /\ spawn_true = [id \in TrackerIds |-> 0]
  /\ despawn_true = [id \in TrackerIds |-> 0]
  /\ SquareIdle /\ HexIdle /\ HexVoxelIdle /\ CoordIdle

PipelineSpecNext ==
  /\ ticks < MaxPipelineTicks
  /\ PipelineNext
  /\ UNCHANGED <<tracker_impl, op, arg, retval, prev_loaded, spawn_true,
                 despawn_true, calls>>
  /\ UNCHANGED <<squareVars, squareVoxelVars, hexVars, hexVoxelVars, coordVars>>

PipelineSpec == PipelineSpecInit /\ [][PipelineSpecNext]_vars

LiveSpecInit ==
  /\ LiveInit
  /\ tracker_impl = "gen_terrain" /\ op = "new" /\ arg = <<0, 0>>
  /\ retval = FALSE /\ prev_loaded = {} /\ calls = 0
  /\ spawn_true = [id \in TrackerIds |-> 0]
  /\ despawn_true = [id \in TrackerIds |-> 0]
  /\ SquareIdle /\ HexIdle /\ HexVoxelIdle /\ CoordIdle

LiveSpecNext ==
  /\ LiveNext
  /\ UNCHANGED <<tracker_impl, op, arg, retval, prev_loaded, spawn_true,
                 despawn_true, calls>>
  /\ UNCHANGED <<squareVars, squareVoxelVars, hexVars, hexVoxelVars, coordVars>>

\* The ticks keep running (the systems of every stage run and the stage
\* ends), the pool keeps working on the tasks it has and completes a task
\* that is left running.
LiveSpec ==
  /\ LiveSpecInit
  /\ [][LiveSpecNext]_vars
  /\ []<>(pending_systems = {})
  /\ WF_streamVars(LiveApplyCommands)
  /\ WF_streamVars(PoolWorks)
  /\ WF_streamVars(PoolCompletes)

LifecycleSpecInit ==
  /\ LifecycleInit
  /\ tracker_impl = "gen_terrain" /\ op = "new" /\ arg = <<0, 0>>
  /\ retval = FALSE /\ prev_loaded = {} /\ calls = 0
  /\ spawn_true = [id \in TrackerIds |-> 0]
  /\ despawn_true = [id \in TrackerIds |-> 0]
  /\ SquareIdle /\ HexIdle /\ HexVoxelIdle /\ CoordIdle

LifecycleSpecNext ==
  /\ ticks < (IF stream_impl = "voxel_rs" THEN MaxTerrainTicks ELSE MaxPipelineTicks)
  /\ LifecycleNext
  /\ UNCHANGED <<tracker_impl, op, arg, retval, prev_loaded, spawn_true,
                 despawn_true, calls>>
  /\ UNCHANGED <<squareVars, squareVoxelVars, hexVars, hexVoxelVars, coordVars>>

LifecycleSpec == LifecycleSpecInit /\ [][LifecycleSpecNext]_vars

TerrainSpecInit ==
  /\ TerrainInit
  /\ tracker_impl = "terrain" /\ op = "new" /\ arg = <<0, 0>>
  /\ retval = FALSE /\ prev_loaded = {} /\ calls = 0
  /\ spawn_true = [id \in TrackerIds |-> 0]
  /\ despawn_true = [id \in TrackerIds |-> 0]
  /\ SquareIdle /\ HexIdle /\ HexVoxelIdle /\ CoordIdle

TerrainSpecNext ==
  /\ ticks < MaxTerrainTicks
  /\ TerrainNext
  /\ UNCHANGED <<tracker_impl, op, arg, retval, prev_loaded, spawn_true,
                 despawn_true, calls>>
  /\ UNCHANGED <<squareVars, squareVoxelVars, hexVars, hexVoxelVars, coordVars>>

TerrainSpec == TerrainSpecInit /\ [][TerrainSpecNext]_vars

(***************************************************************************)
(* Claims about the ChunkTracker (specification Spec)                      *)
(***************************************************************************)

\* C1: try_spawn(id) returns true and adds id to the loaded set when id was
\* absent before the call; when id is already loaded it returns false and
\* leaves the loaded set exactly as it was.
C1_TrySpawnFirstOnly ==
  op = "try_spawn" =>
    /\ arg \notin prev_loaded =>
          retval = TRUE /\ loaded_chunks = prev_loaded \cup {arg}
    /\ arg \in prev_loaded =>
          retval = FALSE /\ loaded_chunks = prev_loaded

\* A repeated spawn of a loaded id, with another id loaded as well.
C1_Witness ==
  /\ op = "try_spawn"
  /\ arg \in prev_loaded
  /\ retval = FALSE
  /\ Cardinality(loaded_chunks) >= 2

\* C2: try_despawn(id) returns true and removes id when id is loaded; when id
\* is absent it returns false, an ordinary boolean, and leaves the loaded set
\* unchanged; in both cases no other id's membership changes.
C2_TryDespawnOnlyThatId ==
  op = "try_despawn" =>
    /\ retval \in BOOLEAN
    /\ arg \in prev_loaded =>
          retval = TRUE /\ arg \notin loaded_chunks
    /\ arg \notin prev_loaded =>
          retval = FALSE /\ loaded_chunks = prev_loaded
    /\ \A other \in TrackerIds \ {arg} :
          (other \in loaded_chunks) <=> (other \in prev_loaded)

\* A successful despawn that leaves another loaded id in place.
C2_Witness ==
  /\ op = "try_despawn"
  /\ arg \in prev_loaded
  /\ retval = TRUE
  /\ loaded_chunks # {}

\* C3: in every sequence of calls from an empty tracker, try_spawn(id) returns
\* true iff the numbers of earlier successful spawns and earlier successful
\* despawns of id are equal, so successful spawns and successful despawns of
\* an id alternate, starting with a spawn.
C3_SpawnTrueIffBalanced ==
  [][ /\ op' = "try_spawn" =>
            (retval' <=> (spawn_true[arg'] = despawn_true[arg']))
      /\ \A id \in TrackerIds :
            /\ spawn_true'[id] - despawn_true'[id] \in {0, 1}
            /\ (spawn_true'[id] - despawn_true'[id] = 1) <=> (id \in loaded_chunks')
    ]_vars

\* An id spawned, despawned and successfully spawned a second time.
C3_Witness ==
  /\ op = "try_spawn"
  /\ retval = TRUE
  /\ spawn_true[arg] = 2
  /\ despawn_true[arg] = 1

(***************************************************************************)
(* Claims about the square grid (specification SquareSpec)                 *)
(***************************************************************************)
Chebyshev(a, b) == Max(Abs(a[1] - b[1]), Abs(a[2] - b[2]))

\* The chunks of the box of half-width d around c.
SquareBox(c, d) == ((c[1] - d)..(c[1] + d)) \X ((c[2] - d)..(c[2] + d))

\* The part of a neighbour list generated for ring r: rings 1..r-1 come
\* first and ring k holds 4 * 2k elements.
SquareRingPart(neighbors, r) ==
  SubSeq(neighbors, 4 * r * (r - 1) + 1, 4 * r * (r + 1))

\* C4: get_chunk_neighbors(c, d) returns exactly the (2d+1)^2 - 1 chunks at
\* Chebyshev distance 1..d from c, each exactly once and never c itself; the
\* elements generated for ring r are exactly the chunks at distance r.
C4_SquareNeighborhood ==
  sq_op = "get_chunk_neighbors" =>
    /\ Len(sq_neighbors) = (2 * sq_distance + 1) * (2 * sq_distance + 1) - 1
    /\ SeqToSet(sq_neighbors) =
         {p \in SquareBox(sq_chunk, sq_distance + 1) :
            Chebyshev(p, sq_chunk) >= 1 /\ Chebyshev(p, sq_chunk) <= sq_distance}
    /\ \A i, j \in 1..Len(sq_neighbors) :
         sq_neighbors[i] = sq_neighbors[j] => i = j
    /\ Count(sq_neighbors, sq_chunk) = 0
    /\ \A r \in 1..sq_distance :
         /\ 4 * r * (r + 1) <= Len(sq_neighbors)
         /\ SeqToSet(SquareRingPart(sq_neighbors, r)) =
              {p \in SquareBox(sq_chunk, sq_distance + 1) :
                 Chebyshev(p, sq_chunk) = r}

\* A neighbourhood of several rings around a chunk with negative coordinates.
C4_Witness ==
  /\ sq_op = "get_chunk_neighbors"
  /\ sq_distance >= 2
  /\ sq_chunk[1] < 0
  /\ sq_chunk[2] < 0
  /\ Len(sq_neighbors) >= 24

\* C5: for every n in get_chunk_neighbors(c, d), the chunk c occurs exactly
\* once in get_chunk_neighbors(n, d).
C5_SquareMutual ==
  sq_op = "neighbors_of_neighbor" =>
    /\ Count(sq_neighbors, sq_neighbor) >= 1
    /\ Count(sq_ns, sq_chunk) = 1

\* The mutuality check applied to a neighbour of the outer ring.
C5_Witness ==
  /\ sq_op = "neighbors_of_neighbor"
  /\ sq_distance >= 2
  /\ Chebyshev(sq_neighbor, sq_chunk) = sq_distance
  /\ Count(sq_ns, sq_chunk) = 1

(***************************************************************************)
(* Claims about the hex grid (specification HexSpec)                       *)
(***************************************************************************)

\* The part of a hex neighbour list generated for ring r: rings 1..r-1 come
\* first and ring k holds 6k elements.
HexRingPart(neighbors, r) ==
  SubSeq(neighbors, 3 * r * (r - 1) + 1, 3 * r * (r + 1))

\* C6 as stated: for every chunk c and ring distance d >= 1,
\* get_chunk_neighbors(c, d) returns exactly 6d chunk ids.
C6_HexNeighborsAreOneRing ==
  hex_op = "get_chunk_neighbors" => Len(hex_neighbors) = 6 * hex_distance

\* C6 as amended: get_chunk_neighbors(c, d) returns the rings 1..d together,
\* 3d^2 + 3d chunk ids; the result for d is the result for d - 1 followed by
\* the 6d ids of ring d, so the count is 6d only for d = 1.
C6_HexNeighborsAreAllRings ==
  hex_op = "get_chunk_neighbors" =>
    /\ Len(hex_neighbors) = 3 * hex_distance * hex_distance + 3 * hex_distance
    /\ SubSeq(hex_neighbors, 1, Len(hex_neighbors) - 6 * hex_distance) =
         Hex_get_chunk_neighbors(hex_chunk, hex_distance - 1)
    /\ (Len(hex_neighbors) = 6 * hex_distance) <=> (hex_distance = 1)

\* A neighbourhood of more than one ring.
C6_Witness ==
  /\ hex_op = "get_chunk_neighbors"
  /\ hex_distance = 2
  /\ Len(hex_neighbors) = 18

\* C7: for every radius, chunk c and d >= 1, get_chunk_neighbors(c, d) has
\* 3d^2 + 3d elements, pairwise distinct and none equal to c, and ring r
\* (1 <= r <= d) contributes exactly 6r of them.
C7_HexNeighborhoodDistinct ==
  hex_op = "get_chunk_neighbors" =>
    /\ Len(hex_neighbors) = 3 * hex_distance * hex_distance + 3 * hex_distance
    /\ Cardinality(SeqToSet(hex_neighbors)) = Len(hex_neighbors)
    /\ Count(hex_neighbors, hex_chunk) = 0
    /\ \A r \in 1..hex_distance :
         /\ 3 * r * (r + 1) <= Len(hex_neighbors)
         /\ Cardinality(SeqToSet(HexRingPart(hex_neighbors, r))) = 6 * r

\* The largest neighbourhood of a chunk away from the origin, radius above 1.
C7_Witness ==
  /\ hex_op = "get_chunk_neighbors"
  /\ chunk_voxel_radius >= 2
  /\ hex_distance >= 3
  /\ hex_chunk # <<0, 0, 0>>
  /\ Cardinality(SeqToSet(hex_neighbors)) >= 36

\* C8: for every radius, every chunk c obtained from voxel_to_chunk, every
\* d >= 1 and every n in get_chunk_neighbors(c, d), the chunk c occurs exactly
\* once in get_chunk_neighbors(n, d).
C8_HexMutual ==
  hex_op = "neighbors_of_neighbor" =>
    /\ Count(hex_neighbors, hex_neighbor) >= 1
    /\ Count(hex_ns, hex_chunk) = 1

\* The mutuality check on an outer-ring neighbour of a chunk that
\* voxel_to_chunk returned for a tile with negative coordinates.
C8_Witness ==
  /\ hex_op = "neighbors_of_neighbor"
  /\ hex_start = "voxel"
  /\ hex_voxel[1] < 0
  /\ hex_voxel[3] < 0
  /\ hex_distance >= 2
  /\ hex_neighbor \in SeqToSet(HexRingPart(hex_neighbors, hex_distance))
  /\ Count(hex_ns, hex_chunk) = 1

\* C9: for every radius R and every tile t, whatever the signs of x and z,
\* distance_step(voxel_to_chunk(t), t.planar) <= R.
C9_HexChunkWithinRadius ==
  hex_op = "voxel_to_chunk" =>
    distance_step(hex_chunk, get_base(hex_voxel)) <= chunk_voxel_radius

\* A tile with negative x and positive z resolved to a chunk at the full
\* radius from it.
C9_Witness ==
  /\ hex_op = "voxel_to_chunk"
  /\ hex_voxel[1] < 0
  /\ hex_voxel[3] > 0
  /\ chunk_voxel_radius >= 2
  /\ distance_step(hex_chunk, get_base(hex_voxel)) = chunk_voxel_radius

\* C10: for every radius R and every chunk c reached from the origin chunk by
\* repeated get_chunk_neighbors(., 1) steps, every tile enumerated for c (the
\* centre and the tiles of get_ring(c, r), 1 <= r <= R) is mapped by
\* voxel_to_chunk back to c.
C10_HexTilesResolveToChunk ==
  (hex_op = "resolve_chunk_tiles" /\ hex_start = "default") =>
    /\ Len(hex_resolved) = Len(hex_tiles)
    /\ Len(hex_tiles) >= 1 + 6 * chunk_voxel_radius
    /\ \A i \in 1..Len(hex_resolved) : hex_resolved[i] = hex_chunk

\* The tiles of a chunk two neighbour steps away from the origin chunk.
C10_Witness ==
  /\ hex_op = "resolve_chunk_tiles"
  /\ hex_start = "default"
  /\ hex_ring_num >= 2
  /\ hex_chunk # <<0, 0, 0>>
  /\ chunk_voxel_radius >= 2
  /\ Len(hex_tiles) = chunk_voxel_period

(***************************************************************************)
(* Claims about the square grid's voxels and space (SquareVoxelSpec)       *)
(***************************************************************************)
\* C11: every voxel that get_chunk_voxels(c) returns maps back to c through
\* voxel_to_chunk, for every chunk c, negative coordinates included.
C11_SquareVoxelsResolveToChunk ==
  sq_op = "get_chunk_voxels" =>
    /\ Len(sq_resolved) = Len(sq_voxels)
    /\ \A i \in 1..Len(sq_voxels) : sq_resolved[i] = sq_chunk

C11_Witness ==
  /\ sq_op = "get_chunk_voxels"
  /\ chunk_voxel_length = 2
  /\ sq_chunk = <<-2, 1>>
  /\ Len(sq_voxels) = chunk_voxel_full_length * chunk_voxel_full_length * chunk_voxel_height
  /\ Len(sq_voxels) > 0

\* C12: voxel_to_chunk divides rounding toward negative infinity: the chunk c
\* it returns for a voxel v has |v.x - c.x * L| <= R and |v.z - c.y * L| <= R
\* with L = 2R + 1, also for negative coordinates.
C12_SquareVoxelWithinChunk ==
  sq_op = "voxel_to_chunk" =>
    /\ Abs(sq_voxel[1] - (sq_chunk[1] * chunk_voxel_full_length)) <= chunk_voxel_length
    /\ Abs(sq_voxel[3] - (sq_chunk[2] * chunk_voxel_full_length)) <= chunk_voxel_length

C12_Witness ==
  /\ sq_op = "voxel_to_chunk"
  /\ sq_voxel[1] < 0 - chunk_voxel_length
  /\ sq_chunk[1] < 0
  /\ sq_voxel[3] > chunk_voxel_length
  /\ sq_chunk[2] > 0

\* C13: with voxel side length 1, space_to_chunk(chunk_to_space(c)) returns c
\* for every origin and chunk c, and chunk_to_space(origin) is the zero vector.
C13_ChunkSpaceRoundTrip ==
  sq_op \in {"space_to_chunk", "space_to_chunk panicked"} =>
    /\ sq_op = "space_to_chunk"
    /\ sq_result = sq_chunk
    /\ sq_chunk = sq_origin => sq_space = <<0, 0, 0>>

\* C14: with voxel side length 1, space_to_voxel(voxel_to_space(v)) returns v
\* for every origin, chunk height and voxel v, non-zero y included.
C14_VoxelSpaceRoundTrip ==
  sq_op = "space_to_voxel" => sq_result = sq_voxel

(***************************************************************************)
(* Claims about the hex grid's chunk voxels and coordinates                *)
(***************************************************************************)
\* The planar tiles of the voxels of hex_voxels at height h, in order.
HexLayer(h) ==
  FlatMapRange(1, Len(hex_voxels), LAMBDA i :
    IF hex_voxels[i][4] = h THEN <<get_base(hex_voxels[i])>> ELSE <<>>)

\* C15: get_chunk_voxels(c) returns (3R^2 + 3R + 1) * (H + 1) voxels; each
\* layer 0..H holds 3R^2 + 3R + 1 pairwise distinct planar tiles, each within
\* distance_step R of c.
C15_HexChunkVoxelCount ==
  hex_op = "get_chunk_voxels" =>
    LET R == chunk_voxel_radius
        period == (3 * R * R) + (3 * R) + 1
    IN  /\ Len(hex_voxels) = period * (hex_chunk_voxel_height + 1)
        /\ \A h \in 0..hex_chunk_voxel_height :
             /\ Len(HexLayer(h)) = period
             /\ Cardinality(SeqToSet(HexLayer(h))) = period
             /\ \A i \in 1..Len(HexLayer(h)) :
                  distance_step(HexLayer(h)[i], hex_chunk) <= R

C15_Witness ==
  /\ hex_op = "get_chunk_voxels"
  /\ chunk_voxel_radius = 2
  /\ hex_chunk_voxel_height = 2
  /\ hex_chunk # <<0, 0, 0>>
  /\ Len(hex_voxels) = 57

ZeroSum(coord) == coord[1] + coord[2] + coord[3] = 0

C17_CoordArithmetic ==
  /\ coord_op = "add" =>
       /\ coord_result = <<coord_a[1] + coord_b[1], coord_a[2] + coord_b[2],
                           coord_a[3] + coord_b[3]>>
       /\ ZeroSum(coord_result)
  /\ coord_op = "sub" =>
       /\ coord_result = <<coord_a[1] - coord_b[1], coord_a[2] - coord_b[2],
                           coord_a[3] - coord_b[3]>>
       /\ ZeroSum(coord_result)

\* C18: a layout with a non-positive chunk radius is rejected at
\* construction: no constructed layout has a radius of zero or less.
C18_NoLayoutWithNonPositiveRadius ==
  /\ chunk_voxel_radius >= 1
  /\ chunk_voxel_length >= 1

(***************************************************************************)
(* Claims about the spawn pass (StreamSpec)                                *)
(***************************************************************************)
\* The site of a spawn_log entry had already loaded the chunk it stands on.
Stationary(e) == e.site_before.last_loaded_chunk = <<e.current_chunk>>

\* C19: for a site whose resolved chunk equals its last_loaded_chunk the
\* spawn pass does nothing: no try_spawn call, no record requested, and the
\* tracker, the chunk records and the site's fresh and last_loaded_chunk
\* stay as they were.
C19_StationarySiteSkipped ==
  \A k \in 1..Len(spawn_log) :
    Stationary(spawn_log[k]) =>
      /\ spawn_log[k].tried = <<>>
      /\ spawn_log[k].commands_after = spawn_log[k].commands_before
      /\ spawn_log[k].loaded_after = spawn_log[k].loaded_before
      /\ spawn_log[k].site_after = spawn_log[k].site_before
      /\ "despawn_chunks" \in pending_systems /\ k = Len(spawn_log) =>
           loaded_chunks = spawn_log[k].loaded_after

C19_Witness ==
  /\ Len(spawn_log) = 2
  /\ Stationary(spawn_log[1])
  /\ ~Stationary(spawn_log[2])
  /\ spawn_log[1].site_before.fresh = FALSE
  /\ spawn_log[1].loaded_before # {}
  /\ sites[1].fresh = FALSE

\* The records that a spawn_log entry's site requested, in order.
Requested(e) ==
  SubSeq(e.commands_after, Len(e.commands_before) + 1, Len(e.commands_after))

\* C20: after the spawn pass handled a site whose resolved chunk differs from
\* its last_loaded_chunk (or that had none), the tracker holds current_chunk
\* and every chunk within 2 rings of it, exactly one record with a pending
\* voxel task was requested for each id spawned for the site, and the site
\* has last_loaded_chunk = current_chunk and fresh = true.
C20_MovedSiteLoadsNeighbourhood ==
  \A k \in 1..Len(spawn_log) :
    LET e == spawn_log[k]
        spawned == e.loaded_after \ e.loaded_before
    IN  ~Stationary(e) =>
          /\ SquareBox(e.current_chunk, 2) \subseteq e.loaded_after
          /\ e.loaded_before \subseteq e.loaded_after
          /\ spawned \subseteq SquareBox(e.current_chunk, 2)
          /\ SubSeq(e.commands_after, 1, Len(e.commands_before)) = e.commands_before
          /\ Len(Requested(e)) = Cardinality(spawned)
          /\ \A id \in spawned :
               \E j \in 1..Len(Requested(e)) :
                 /\ Requested(e)[j].id = id
                 /\ Requested(e)[j].load_voxels_task = "pending"
          /\ e.site_after.last_loaded_chunk = <<e.current_chunk>>
          /\ e.site_after.fresh = TRUE

C20_Witness ==
  /\ Len(spawn_log) = 1
  /\ spawn_log[1].site_before.last_loaded_chunk = <<(<<0, 0>>)>>
  /\ spawn_log[1].site_before.fresh = FALSE
  /\ spawn_log[1].current_chunk = <<1, 1>>
  /\ Cardinality(spawn_log[1].loaded_after \ spawn_log[1].loaded_before) = 9
  /\ Len(Requested(spawn_log[1])) = 9
  /\ sites[1].fresh = TRUE

(***************************************************************************)
(* Claims about the tick of the streaming schedule (StreamSpec)            *)
(***************************************************************************)
\* The stage has ended and the next tick has not begun.
EndOfTick == pending_systems = Systems

\* C21: at the end of every tick, once the queued commands are applied, the
\* ids of the live chunk records are exactly the ids the ChunkTracker holds,
\* and no two live records share an id.
C21_TrackerMatchesRecords ==
  EndOfTick =>
    /\ ids_of(chunks) = loaded_chunks
    /\ Cardinality(chunks) = Cardinality(loaded_chunks)

\* Two sites with overlapping neighbourhoods; the record of chunk (0, 0) was
\* despawned and spawned again, next to records of the first tick.
C21_Witness ==
  /\ EndOfTick
  /\ Len(sites) = 2
  /\ \E chunk \in chunks : chunk.id = <<0, 0>> /\ chunk.entity[1] = 2
  /\ \E chunk \in chunks : chunk.entity[1] = 0
  /\ \E i, j \in 1..2 :
        /\ sites[i].last_loaded_chunk = <<(<<0, 0>>)>>
        /\ sites[j].last_loaded_chunk = <<(<<1, 1>>)>>

(***************************************************************************)
(* Claims about the tick with the task pool at work (PipelineSpec)         *)
(***************************************************************************)
\* The site of a spawn_log entry had loaded another chunk's neighbourhood.
Moved(e) ==
  /\ e.site_before.last_loaded_chunk # <<>>
  /\ e.site_before.last_loaded_chunk # <<e.current_chunk>>

\* The step of the system spawn_chunks
SpawnChunksStep ==
  "spawn_chunks" \in pending_systems /\ "spawn_chunks" \notin pending_systems'

\* C22: when a site that has loaded its neighbourhood moves to another
\* chunk, the spawn pass sets fresh, requests records only for the ids the
\* tracker did not hold, one for each, and leaves every live record as it
\* is, with its voxel data, its mesh and its tasks.
C22_MoveKeepsTrackedRecords ==
  [][SpawnChunksStep =>
       /\ chunks' = chunks
       /\ entity_commands' = entity_commands
       /\ \A k \in 1..Len(spawn_log') :
            LET e == spawn_log'[k]
            IN  Moved(e) =>
                  /\ e.site_after.fresh = TRUE
                  /\ sites'[k].fresh = TRUE
                  /\ ids_of(SeqToSet(Requested(e))) = e.loaded_after \ e.loaded_before
                  /\ Len(Requested(e)) = Cardinality(e.loaded_after \ e.loaded_before)
                  /\ \A chunk \in chunks :
                       chunk.id \in e.loaded_before =>
                         /\ chunk \in chunks'
                         /\ chunk.id \notin ids_of(SeqToSet(Requested(e)))]_vars

\* Chunks of radius 2: the site went from (0, 0, 0) to (5, 0, 5) and the
\* spawn pass asked for 9 records; the 16 chunks it shares with the old
\* neighbourhood have records with voxel data and a mesh task.
C22_Witness ==
  /\ chunk_voxel_length = 2
  /\ Len(spawn_log) = 1
  /\ spawn_log[1].site_before.translation = <<5 * SpaceDenom, 0, 5 * SpaceDenom>>
  /\ spawn_log[1].site_before.last_loaded_chunk = <<(<<0, 0>>)>>
  /\ spawn_log[1].current_chunk = <<1, 1>>
  /\ sites[1].fresh = TRUE
  /\ Len(Requested(spawn_log[1])) = 9
  /\ Cardinality({chunk \in chunks :
                    /\ chunk.id \in SquareBox(<<1, 1>>, 2)
                    /\ chunk.voxel_data
                    /\ chunk.load_voxels_task = "none"
                    /\ chunk.mesh_task # "none"}) = 16

(***************************************************************************)
(* Claims about the distance pass (StreamSpec)                             *)
(***************************************************************************)
\* The sites that were fresh when this tick's distance pass began
FreshAtPass == SeqToSet(fresh_sites_of(distance_log[1].sites))

\* The least of a non-empty set of numbers
Least(numbers) == CHOOSE d \in numbers : \A e \in numbers : d <= e

\* C23: after a distance pass that began with a non-empty set F of fresh
\* sites, the distance of every chunk record is the least, over the sites s
\* of F, of get_chunk_distance(record.id, s.last_loaded_chunk).
C23_DistanceIsMinOverFresh ==
  distance_log # <<>> /\ FreshAtPass # {} =>
    \A chunk \in chunks :
      chunk.distance_to_nearest_spawner =
        Least({get_chunk_distance(chunk.id, s.last_loaded_chunk[1]) :
                 s \in FreshAtPass})

\* Two fresh sites on different chunks; one record is nearer to the first
\* site, another to the second.
C23_Witness ==
  /\ distance_log # <<>>
  /\ Len(fresh_sites_of(distance_log[1].sites)) = 2
  /\ LET a == distance_log[1].sites[1].last_loaded_chunk[1]
         b == distance_log[1].sites[2].last_loaded_chunk[1]
     IN  /\ \E chunk \in chunks :
               /\ get_chunk_distance(chunk.id, a) < get_chunk_distance(chunk.id, b)
               /\ chunk.distance_to_nearest_spawner = get_chunk_distance(chunk.id, a)
         /\ \E chunk \in chunks :
               /\ get_chunk_distance(chunk.id, b) < get_chunk_distance(chunk.id, a)
               /\ chunk.distance_to_nearest_spawner = get_chunk_distance(chunk.id, b)

\* The step of the system calc_chunk_distances
CalcChunkDistancesStep ==
  /\ "calc_chunk_distances" \in pending_systems
  /\ "calc_chunk_distances" \notin pending_systems'

\* C24: every site that is fresh when a distance pass begins is not fresh
\* when the pass ends, however many chunk records are live, none included.
C24_FreshConsumedByPass ==
  [][CalcChunkDistancesStep =>
       \A i \in 1..Len(sites) : sites[i].fresh => ~sites'[i].fresh]_vars

\* C25: a distance pass that begins without a fresh site changes nothing:
\* the distances of the records, the sites' fresh and last_loaded_chunk and
\* the tracker stay as they were.
C25_PassWithoutFreshSiteIsNoOp ==
  [][CalcChunkDistancesStep /\ fresh_sites_of(sites) = <<>> =>
       /\ chunks' = chunks
       /\ sites' = sites
       /\ loaded_chunks' = loaded_chunks
       /\ commands' = commands
       /\ entity_commands' = entity_commands]_vars

\* A pass without a fresh site ran over live records, one of which still
\* holds the distance 0 it was created with although no site stands on it.
C25_Witness ==
  /\ distance_log # <<>>
  /\ FreshAtPass = {}
  /\ distance_log[1].chunks = chunks
  /\ \E chunk \in chunks :
        /\ chunk.distance_to_nearest_spawner = 0
        /\ \A i \in 1..Len(sites) : sites[i].last_loaded_chunk # <<chunk.id>>


(***************************************************************************)
(* Claims about the despawn pass (StreamSpec, TerrainSpec)                 *)
(***************************************************************************)
\* The step of the despawn system of the running plugin
DespawnStep == despawn_log = <<>> /\ despawn_log' # <<>>

\* The distance of a record is past the despawn threshold of the plugin.
beyond_threshold(chunk) ==
  IF stream_impl = "gen_terrain"
    THEN too_far(chunk)
    ELSE chunk.distance_to_nearest_site > min_despawn_distance

\* The records the despawn pass of this tick removes
removed_records ==
  {chunk \in despawn_log[1].chunks : chunk.entity \in entity_commands.despawn_chunks}

\* C26: the despawn pass removes a record only if its distance is strictly
\* past the threshold, and the ids that leave the ChunkTracker in that step
\* are exactly the ids of the records it removes.
C26_RecordAndIdRemovedTogether ==
  [][DespawnStep =>
       LET log == despawn_log'[1]
           removed == {chunk \in log.chunks :
                         chunk.entity \in entity_commands'.despawn_chunks}
       IN  /\ \A chunk \in removed : beyond_threshold(chunk)
           /\ log.loaded_chunks \ loaded_chunks' = ids_of(removed)
           /\ ids_of(removed) \cap loaded_chunks' = {}]_vars


\* The despawn timer fired in the despawn pass of this tick.  despawn_chunks
\* of VoxelTerrainPlugin has no timer to tick.
timer_fired(log) == log.timer # <<>> /\ log.timer[1].finished

\* C27: a despawn pass in which the despawn timer has not fired removes no
\* record and leaves the ChunkTracker as it was, whatever the distances of
\* the records; a pass in which it fired leaves the timer restarted.
C27_DespawnGatedByTimer ==
  [][DespawnStep =>
       LET log == despawn_log'[1]
       IN  /\ ~timer_fired(log) =>
                /\ entity_commands'.despawn_chunks = {}
                /\ loaded_chunks' = loaded_chunks
           /\ timer_fired(log) =>
                /\ despawn_timer'.elapsed = 0
                /\ ~despawn_timer'.finished]_vars


\* The tick in which the entity of a record was requested
created_in(entity) == entity[1]

\* C28: the despawn pass of a tick removes no record that the spawn pass of
\* the same tick created: every record it removes was created in an earlier
\* tick, and every record created in this tick is still only requested.
C28_NoSpawnThenDespawnInOneTick ==
  /\ \A entity \in entity_commands.despawn_chunks : created_in(entity) < ticks
  /\ \A chunk \in SeqToSet(commands) :
       /\ created_in(chunk.entity) = ticks
       /\ chunk.entity \notin entity_commands.despawn_chunks
       /\ chunk \notin chunks

\* A tick whose spawn pass created records and whose despawn pass removed
\* records of the tick before.
C28_Witness ==
  /\ pending_systems = {}
  /\ commands # <<>>
  /\ \E entity \in entity_commands.despawn_chunks : created_in(entity) = ticks - 1


(***************************************************************************)
(* Claims about the generation pipeline (PipelineSpec)                     *)
(***************************************************************************)
\* The record of an entity after a step, if it is still live
same_entity(chunk, after) == {c \in after : c.entity = chunk.entity}

\* What holds of the voxel task of every record in every state
voxel_task_once ==
  /\ \A chunk \in SeqToSet(commands) :
       chunk.load_voxels_task = "pending" /\ ~chunk.voxel_data
  /\ \A chunk \in chunks :
       /\ chunk.load_voxels_task # "polled after completion"
       /\ chunk.voxel_data <=> chunk.load_voxels_task = "none"
       /\ chunk.load_voxels_task = "taken" =>
            chunk.entity \in entity_commands.load_voxels

\* C29: a record is requested with its one voxel task; no step gives a live
\* record a voxel task again once its task has finished or is gone; the
\* output of a finished task is taken by one poll, its data is attached and
\* its handle removed when the tick ends, and no task is polled after that.
C29_VoxelTaskOnce ==
  /\ []voxel_task_once
  /\ [][\A chunk \in chunks : \A after \in same_entity(chunk, chunks') :
          /\ chunk.load_voxels_task # "pending" =>
               after.load_voxels_task # "pending"
          /\ chunk.load_voxels_task = "none" =>
               after.load_voxels_task = "none" /\ after.voxel_data]_vars

\* The voxel task of a record finished, was polled and its data attached
\* one tick ago, and load_voxels has run again since.
C29_Witness ==
  /\ "load_voxels" \notin pending_systems
  /\ entity_commands.load_voxels = {}
  /\ \E chunk \in chunks :
       chunk.voxel_data /\ chunk.load_voxels_task = "none"


\* C30: build_chunk_mesh submits a mesh task only for a record that has no
\* mesh task yet: a record that has voxel data and a mesh task, attached
\* mesh or not, is never given another one.
C30_MeshTaskOnce ==
  \A chunk \in chunks :
    chunk.entity \in entity_commands.build_chunk_mesh =>
      chunk.voxel_data /\ chunk.mesh_task = "none"


\* The step that ends a tick
ApplyStep == ticks' = ticks + 1

\* The entities of a set of records
entities_of(records) == {chunk.entity : chunk \in records}

\* C31: when the commands of a tick are applied, every command finds its
\* entity; the records the despawn pass removed are gone, whatever their
\* tasks had delivered; no record appears but the ones the spawn pass
\* requested, and those are as they were requested; a surviving record has
\* only the results of its own tasks; the ChunkTracker is as it was.
C31_StaleResultDropped ==
  [][ApplyStep /\ stream_impl = "gen_terrain" =>
       LET gone == entity_commands.despawn_chunks
           requested == SeqToSet(commands)
       IN  /\ missing_entity(entity_commands, chunks) = {}
           /\ entities_of(chunks') =
                (entities_of(chunks) \cup entities_of(requested)) \ gone
           /\ requested \subseteq chunks'
           /\ \A chunk \in chunks : \A after \in same_entity(chunk, chunks') :
                /\ after.voxel_data =>
                     chunk.voxel_data \/ chunk.entity \in entity_commands.load_voxels
                /\ after.mesh =>
                     chunk.mesh \/ chunk.entity \in entity_commands.attach_chunk_mesh
                /\ after.id = chunk.id
                /\ after.distance_to_nearest_spawner = chunk.distance_to_nearest_spawner
           /\ loaded_chunks' = loaded_chunks]_vars

\* The tick is about to end: a record is despawned in the tick in which
\* load_voxels took the result of its task, and a record for a despawned id
\* is requested anew.
C31_Witness ==
  /\ pending_systems = {}
  /\ entity_commands.despawn_chunks \cap entity_commands.load_voxels # {}
  /\ \E chunk \in SeqToSet(commands) :
       chunk.id \in {entity[2] : entity \in entity_commands.despawn_chunks}


\* What a record holds, under either pipeline: voxel.rs keeps the voxels in
\* ChunkComponent.voxels, marks the built mesh with ChunkComponent.loaded and
\* has no mesh task.
has_voxels(chunk) ==
  IF stream_impl = "voxel_rs" THEN chunk.voxels # <<>> ELSE chunk.voxel_data

has_mesh(chunk) ==
  IF stream_impl = "voxel_rs" THEN chunk.loaded ELSE chunk.mesh

has_mesh_task(chunk) ==
  IF stream_impl = "voxel_rs" THEN FALSE ELSE chunk.mesh_task # "none"

\* The lifecycle state of a record: 1 VoxelsLoading (a record without its
\* voxels), 2 VoxelsLoaded, 3 MeshBuilding, 4 MeshAttached
lifecycle(chunk) ==
  IF has_mesh(chunk) THEN 4
  ELSE IF has_mesh_task(chunk) THEN 3
  ELSE IF has_voxels(chunk) THEN 2
  ELSE 1

\* C32: a record never moves back in its lifecycle; a mesh task is
\* submitted only for a record with voxel data and a mesh is attached only
\* to such a record; voxel data and mesh stay while the record lives.
C32_LifecycleForward ==
  /\ [](\A chunk \in chunks :
          /\ chunk.entity \in entity_commands.build_chunk_mesh => has_voxels(chunk)
          /\ chunk.entity \in entity_commands.attach_chunk_mesh => has_voxels(chunk)
          /\ has_mesh_task(chunk) => has_voxels(chunk)
          /\ has_mesh(chunk) => has_voxels(chunk))
  /\ [][\A chunk \in chunks : \A after \in same_entity(chunk, chunks') :
          /\ lifecycle(after) >= lifecycle(chunk)
          /\ has_voxels(chunk) => has_voxels(after)
          /\ has_mesh(chunk) => has_mesh(after)]_vars

\* A record has gone through every state: its mesh is attached.
C32_Witness ==
  /\ stream_impl = "gen_terrain"
  /\ \E chunk \in chunks :
       lifecycle(chunk) = 4 /\ has_voxels(chunk) /\ chunk.load_voxels_task = "none"


(***************************************************************************)
(* Claims about the pipeline running for ever (LiveSpec)                   *)
(***************************************************************************)
\* C33: with the ticks running and the pool completing every task that is
\* left running, once the records exist every record comes to hold its voxel
\* data and its mesh.
C33_EveryRecordGetsItsMesh ==
  (chunks # {}) ~> (\A chunk \in chunks : chunk.voxel_data /\ chunk.mesh)


(***************************************************************************)
(* Claims about the distances of the records (StreamSpec)                  *)
(***************************************************************************)
\* The chunks the sites have loaded
last_loaded_chunks ==
  {sites[i].last_loaded_chunk[1] :
     i \in {j \in 1..Len(sites) : sites[j].last_loaded_chunk # <<>>}}

\* C34: whenever no site is fresh, no live record carries the placeholder 0
\* it was created with instead of a computed distance: a record at distance
\* 0 is the chunk some site has loaded.
C34_NoPlaceholderWhenNoSiteFresh ==
  fresh_sites_of(sites) = <<>> =>
    \A chunk \in chunks :
      chunk.distance_to_nearest_spawner = 0 => chunk.id \in last_loaded_chunks


(***************************************************************************)
(* Claims about the hexagonal lookup table (HexSpec)                       *)
(***************************************************************************)
\* C35: after voxel_to_chunk on any tile (x and z of either sign) of a layout
\* of radius R >= 1, the key x_upper lies in [0, period), is one of the keys
\* build_lookup assigned, indexes inside the table, and the chunk returned is
\* the tile plus the table's entry at that key.
C35_LookupKeyInRange ==
  (hex_op = "voxel_to_chunk" /\ chunk_voxel_radius >= 1) =>
    LET key == x_upper(hex_voxel)
    IN  /\ key \in 0..(chunk_voxel_period - 1)
        /\ key \in assigned_keys(chunk_voxel_radius)
        /\ key \in DOMAIN chunk_lookup
        /\ hex_chunk = CubeHexCoord_add(get_base(hex_voxel), chunk_lookup[key])

\* A tile with negative x and z whose remainder was negative and was wrapped.
C35_Witness ==
  /\ hex_op = "voxel_to_chunk"
  /\ chunk_voxel_radius = MaxRadius
  /\ hex_voxel[1] < 0 /\ hex_voxel[3] < 0
  /\ x_closest(hex_voxel) < 0
  /\ x_upper(hex_voxel) = x_closest(hex_voxel) + chunk_voxel_period


(***************************************************************************)
(* Claims about the neighbourhood of a resting site (StreamSpec)           *)
(***************************************************************************)
\* The chunks a site standing on chunk streams in: the chunk and the
\* neighbours of distance 2 the spawner asks the layout for.
streaming_radius(chunk) ==
  {chunk} \cup
    SeqToSet(IF stream_impl = "gen_terrain"
               THEN CubicVoxelLayout_get_chunk_neighbors(chunk, 2)
               ELSE CubeLayout_get_chunk_neighbors(chunk, 2))

\* C36: the despawn pass removes no record whose chunk is the loaded chunk
\* of some site or lies within the streaming radius of it, whatever the other
\* sites did.
C36_ChunksAroundASiteStay ==
  despawn_log # <<>> =>
    \A chunk \in removed_records :
      \A loaded \in last_loaded_chunks : chunk.id \notin streaming_radius(loaded)


\* C37: every chunk that get_chunk_neighbors(c, d) emits for ring r is at
\* get_chunk_distance r from c.
C37_DistanceAgreesWithRing ==
  hex_op = "get_chunk_neighbors" =>
    \A k \in 1..Len(hex_neighbors) :
      Hex_get_chunk_distance(hex_chunk, hex_neighbors[k]) = ring_of(k)


\* voxel_to_chunk maps the tile of height 0 at coord to coord itself.
is_chunk_centre(coord) == voxel_to_chunk(from_hex2d(coord, 0)) = coord

\* C38: the chunk voxel_to_chunk returned for a tile is a fixed point of
\* voxel_to_chunk, and every chunk get_chunk_neighbors(c, d) returns for a
\* chunk centre c is a fixed point of voxel_to_chunk too.
C38_ChunkIdsAreFixedPoints ==
  /\ hex_start = "voxel" =>
       /\ hex_chunk = voxel_to_chunk(hex_voxel)
       /\ is_chunk_centre(hex_chunk)
  /\ (hex_op = "get_chunk_neighbors" /\ is_chunk_centre(hex_chunk)) =>
       \A k \in 1..Len(hex_neighbors) : is_chunk_centre(hex_neighbors[k])

\* The neighbours of several rings of a chunk that voxel_to_chunk resolved
\* from a tile that is not its centre.
C38_Witness ==
  /\ hex_op = "get_chunk_neighbors"
  /\ hex_start = "voxel"
  /\ hex_chunk # get_base(hex_voxel)
  /\ hex_chunk # <<0, 0, 0>>
  /\ is_chunk_centre(hex_chunk)
  /\ hex_distance = MaxHexDistance
  /\ Len(hex_neighbors) = 3 * MaxHexDistance * (MaxHexDistance + 1)


\* The tiles of the hexagon of radius around the origin
hexagon(radius) ==
  {coord \in {from_xz(x, z) : x \in (0 - radius)..radius, z \in (0 - radius)..radius} :
     distance_step(coord, <<0, 0, 0>>) <= radius}

\* C39: for R >= 1 build_lookup returns period = 3R^2 + 3R + 1 and a table
\* whose entries at the keys 0..period-1 are pairwise distinct zero-sum
\* offsets within distance_step R of the origin, the entry at key 0 being the
\* zero offset: the entries are exactly the tiles of the hexagon of radius R.
C39_LookupIsBijection ==
  chunk_voxel_radius >= 1 =>
    LET R == chunk_voxel_radius
        keys == 0..(chunk_voxel_period - 1)
    IN  /\ chunk_voxel_period = (3 * R * R) + (3 * R) + 1
        /\ keys \subseteq DOMAIN chunk_lookup
        /\ \A k \in keys :
             /\ chunk_lookup[k][1] + chunk_lookup[k][2] + chunk_lookup[k][3] = 0
             /\ distance_step(chunk_lookup[k], <<0, 0, 0>>) <= R
        /\ \A k1 \in keys, k2 \in keys :
             k1 # k2 => chunk_lookup[k1] # chunk_lookup[k2]
        /\ chunk_lookup[0] = <<0, 0, 0>>
        /\ {chunk_lookup[k] : k \in keys} = hexagon(R)
        /\ Cardinality(hexagon(R)) = chunk_voxel_period

\* A layout of the largest radius whose table has resolved a tile on the
\* rim of its chunk with an entry of the second phase.
C39_Witness ==
  /\ chunk_voxel_radius = MaxRadius
  /\ hex_op = "voxel_to_chunk"
  /\ x_upper(hex_voxel) > (chunk_voxel_period - 1) \div 2
  /\ distance_step(hex_chunk, get_base(hex_voxel)) = chunk_voxel_radius

=============================================================================
